---- MODULE Spec2Model ----
(***************************************************************************)
(* Verification model of the distributed-abuse-detection-system           *)
(* coordination layer.                                                     *)
(*                                                                         *)
(* Part 1: CacheManager (src/unnamed/part_000): the shared Redis store,    *)
(* the distributed lock (acquireLock / releaseLock) and the token-bucket   *)
(* rate limiter (rateLimitCheck).                                          *)
(*                                                                         *)
(* Part 2: KafkaProducerManager (src/internal/kafka/producer.ts) and       *)
(* KafkaConsumerManager (src/internal/db/index.ts): publishing with the    *)
(* client library's bounded retries, the per-message callback of the       *)
(* consumer and the dead-letter hand-off.                                  *)
(*                                                                         *)
(* Every `await` on a store operation is a suspension point: a call is     *)
(* issued in one step (X_call) and the store executes the command          *)
(* atomically in a later step, in which the caller also computes its       *)
(* return value.  Other processes, the clock and store outages interleave  *)
(* between the two.                                                        *)
(***************************************************************************)
EXTENDS Integers, FiniteSets, Sequences, TLC

(***************************************************************************)
(* Bounds and input sets                                                   *)
(***************************************************************************)
\* the clock advances in half-second ticks (exactly representable as a
\* JavaScript double, so (now - lastRefill) / 1000 * refillRate is exact)
MsPerSecond == 1000
TickMs == MsPerSecond \div 2
\* number of ticks after which the clock stops
MaxTicks == 4
MaxClock == MaxTicks * TickMs

\* processes sharing the store, each with its own CacheManager singleton
Procs == {"p1", "p2"}
LockKeys == {"K"}
OwnerTokens == {"T1", "T2"}
\* ttlSeconds passed to acquireLock
LockTtls == {1, 2}

\* rate-limit identifiers, the (maxTokens, refillRate) pairs a run is made
\* with, and the values of tokensRequested
Identifiers == {"u1"}
Configs == {<<1, 1>>, <<3, 2>>}
Requests == {1, 2}
DrainConfig == <<10, 1>>

\* records a consumed topic receives before its producers stop
MaxLog == 2

\* rate limiter parameters of the expiry check: maxTokens, refillRate in 1..MaxParam
MaxParam == 4

(***************************************************************************)
(* State                                                                   *)
(***************************************************************************)
VARIABLES
    clock,      \* wall-clock time in ms (Date.now() and the store's clock)
    storeUp,    \* TRUE while store operations succeed, FALSE while they raise
    locks,      \* store entries  <prefix>lock:<lockKey>
    lockCall,   \* per process: the lock call in flight and the last return
    owners,     \* history: grants (acquireLock returned true) that were
                \* neither released by releaseLock nor reached their expiry
    maxTokens,  \* the maxTokens every rateLimitCheck call passes
    refillRate, \* the refillRate every rateLimitCheck call passes
    buckets,    \* store entries  <prefix>rate_limit:<identifier>
    rlCall,     \* per process: the rateLimitCheck in flight and the last return
    brokerUp,   \* TRUE while the Kafka cluster answers, FALSE while requests fail
    log,        \* per topic: the records the cluster has accepted, in order
    prodConnected,   \* KafkaProducerManager.isConnected
    pub,        \* per caller: the publish in flight and the last outcome
    consConnected,   \* KafkaConsumerManager.isConnected
    messageHandlers, \* KafkaConsumerManager.messageHandlers: topic -> handler
    sub,        \* the subscribe call in flight and the last outcome
    running,    \* TRUE once consumer.run has installed the eachMessage callback
    position,   \* per topic: offset of the next record the runner delivers
    cb,         \* the eachMessage invocation in flight and the last return
    restart,    \* TRUE while the client library's restart timer is pending
    wire,       \* the producer's broker connection: its requests and what the
                \* broker remembers of the sends they belong to
    dbConnected,     \* DatabaseManager.isConnected
    cacheConnected,  \* CacheManager.isConnected
    connCall,   \* per component: the connect() in flight and the last outcome
    server,     \* IngestApiServer.start(): where the hosting process is
    window,     \* history: an observation window on one identifier's bucket
                \* and the tokens granted in it
    run,        \* history: the current run of allowed checks each made less
                \* than 1/refillRate seconds after the one before
    twin,       \* the same limiter on a store whose bucket keys never
                \* expire, given the same checks
    startCall,  \* what the caller of the last startConsuming() got
    tx          \* DatabaseManager.transaction: each caller's call

lockVars == <<locks, lockCall, owners>>
rateVars == <<maxTokens, refillRate, buckets, rlCall>>
cacheVars == <<clock, storeUp, lockVars, rateVars>>
brokerVars == <<brokerUp, log>>
prodVars == <<prodConnected, pub>>
consVars == <<consConnected, messageHandlers, sub, running, position, cb>>
kafkaVars == <<brokerVars, prodVars, consVars>>
auxVars == <<window, run, twin, startCall, tx>>
hostVars == <<restart, wire, dbConnected, cacheConnected, connCall, server>>
vars == <<clock, storeUp, locks, lockCall, owners,
          maxTokens, refillRate, buckets, rlCall,
          brokerUp, log, prodConnected, pub,
          consConnected, messageHandlers, sub, running, position, cb,
          restart, wire, dbConnected, cacheConnected, connCall, server,
          window, run, twin, startCall, tx>>

(***************************************************************************)
(* The store (Redis) as the client calls of part_000 use it                *)
(***************************************************************************)
NoToken == "none"
NoLock == [present |-> FALSE, val |-> NoToken, exp |-> 0]

\* SET key value EX ttlSeconds NX: create only if absent, with an expiry
SetNxEx_NoNX(entry, value, ttlSeconds) ==
    [reply |-> "OK",
     entry |-> [present |-> TRUE, val |-> value,
                exp |-> clock + ttlSeconds * MsPerSecond]]

SetNxEx_Reentrant(entry, value, ttlSeconds) ==
    IF entry.present /\ entry.val # value
    THEN [reply |-> "nil", entry |-> entry]
    ELSE [reply |-> "OK",
          entry |-> [present |-> TRUE, val |-> value,
                     exp |-> clock + ttlSeconds * MsPerSecond]]

SetNxEx_NoEx(entry, value, ttlSeconds) ==
    IF entry.present
    THEN [reply |-> "nil", entry |-> entry]
    ELSE [reply |-> "OK",
          entry |-> [present |-> TRUE, val |-> value,
                     exp |-> MaxClock + MsPerSecond]]

SetNxEx_Touch(entry, value, ttlSeconds) ==
    IF entry.present
    THEN [reply |-> "nil",
          entry |-> [entry EXCEPT !.exp = clock + ttlSeconds * MsPerSecond]]
    ELSE [reply |-> "OK",
          entry |-> [present |-> TRUE, val |-> value,
                     exp |-> clock + ttlSeconds * MsPerSecond]]

SetNxEx(entry, value, ttlSeconds) ==
    IF entry.present
    THEN [reply |-> "nil", entry |-> entry]
    ELSE [reply |-> "OK",
          entry |-> [present |-> TRUE, val |-> value,
                     exp |-> clock + ttlSeconds * MsPerSecond]]

\* the Lua script of releaseLock, evaluated atomically by the store:
\*   if redis.call("GET", KEYS[1]) == ARGV[1] then return redis.call("DEL", KEYS[1])
\*   else return 0 end
luaScript_NoCompare(entry, arg) ==
    IF entry.present
    THEN [reply |-> 1, entry |-> NoLock]
    ELSE [reply |-> 0, entry |-> entry]

luaScript(entry, arg) ==
    IF entry.present /\ entry.val = arg
    THEN [reply |-> 1, entry |-> NoLock]
    ELSE [reply |-> 0, entry |-> entry]

\* key expiry: an entry whose expiry time has been reached is gone
NoExpiry == 0 - 1
Expired(entry, t) == entry.present /\ entry.exp # NoExpiry /\ entry.exp <= t

(***************************************************************************)
(* CacheManager.acquireLock / releaseLock                                  *)
(***************************************************************************)
\* pc: the call in flight; op, key, token, ret, err: the call that returned last
\* (err: its store operation raised); own is history: the entry held the
\* caller's token when its releaseLock was issued
IdleCall == [pc |-> "idle", key |-> "K", token |-> NoToken, ttl |-> 0,
             op |-> "none", ret |-> FALSE, err |-> FALSE, own |-> FALSE]

\* the value acquireLock returns from its catch block
acquireLock_catch_open == TRUE

acquireLock_catch == FALSE

\* the value releaseLock returns from its catch block
releaseLock_catch == FALSE

\* acquireLock up to the await of client.set(prefixedKey, lockValue, {EX, NX})
acquireLock_call(p, lockKey, ttlSeconds, lockValue) ==
    /\ lockCall[p].pc = "idle"
    /\ lockCall' = [lockCall EXCEPT ![p] =
                      [IdleCall EXCEPT !.pc = "acquire", !.key = lockKey,
                                       !.token = lockValue, !.ttl = ttlSeconds]]
    /\ UNCHANGED <<auxVars, hostVars, kafkaVars, clock, storeUp, locks, owners, rateVars>>

\* the store executes the SET (or the client raises) and acquireLock returns
acquireLock(p) ==
    /\ lockCall[p].pc = "acquire"
    /\ LET c == lockCall[p]
           r == SetNxEx(locks[c.key], c.token, c.ttl)
           acquired == IF storeUp THEN r.reply = "OK" ELSE acquireLock_catch
       IN /\ locks' = IF storeUp THEN [locks EXCEPT ![c.key] = r.entry] ELSE locks
          /\ lockCall' = [lockCall EXCEPT ![p] =
                            [IdleCall EXCEPT !.op = "acquire", !.key = c.key,
                                             !.token = c.token,
                                             !.ret = acquired, !.err = ~storeUp]]
          /\ owners' = IF acquired
                       THEN owners \cup {[key |-> c.key, token |-> c.token,
                                          exp |-> clock + c.ttl * MsPerSecond]}
                       ELSE owners
    /\ UNCHANGED <<auxVars, hostVars, kafkaVars, clock, storeUp, rateVars>>

\* releaseLock up to the await of client.eval(luaScript, ...)
releaseLock_call(p, lockKey, lockValue) ==
    /\ lockCall[p].pc = "idle"
    /\ lockCall' = [lockCall EXCEPT ![p] =
                      [IdleCall EXCEPT !.pc = "release", !.key = lockKey,
                                       !.token = lockValue,
                                       !.own = (locks[lockKey].present
                                                /\ locks[lockKey].val = lockValue)]]
    /\ UNCHANGED <<auxVars, hostVars, kafkaVars, clock, storeUp, locks, owners, rateVars>>

\* a get-then-delete release: the comparison was made when the call was
\* issued, the delete is executed later whatever the entry holds by then
releaseLock_GetThenDel(p) ==
    /\ lockCall[p].pc = "release"
    /\ LET c == lockCall[p]
           released == IF storeUp THEN c.own /\ locks[c.key].present
                       ELSE releaseLock_catch
       IN /\ locks' = IF storeUp /\ c.own THEN [locks EXCEPT ![c.key] = NoLock]
                      ELSE locks
          /\ lockCall' = [lockCall EXCEPT ![p] =
                            [IdleCall EXCEPT !.op = "release", !.key = c.key,
                                             !.token = c.token, !.own = c.own,
                                             !.ret = released, !.err = ~storeUp]]
          /\ owners' = IF released
                       THEN {g \in owners : ~(g.key = c.key /\ g.token = c.token)}
                       ELSE owners
    /\ UNCHANGED <<auxVars, hostVars, kafkaVars, clock, storeUp, rateVars>>

\* the store evaluates the script (or the client raises) and releaseLock returns
releaseLock(p) ==
    /\ lockCall[p].pc = "release"
    /\ LET c == lockCall[p]
           r == luaScript(locks[c.key], c.token)
           released == IF storeUp THEN r.reply = 1 ELSE releaseLock_catch
       IN /\ locks' = IF storeUp THEN [locks EXCEPT ![c.key] = r.entry] ELSE locks
          /\ lockCall' = [lockCall EXCEPT ![p] =
                            [IdleCall EXCEPT !.op = "release", !.key = c.key,
                                             !.token = c.token, !.own = c.own,
                                             !.ret = released, !.err = ~storeUp]]
          /\ owners' = IF released
                       THEN {g \in owners : ~(g.key = c.key /\ g.token = c.token)}
                       ELSE owners
    /\ UNCHANGED <<auxVars, hostVars, kafkaVars, clock, storeUp, rateVars>>

(***************************************************************************)
(* JavaScript values and arithmetic as rateLimitCheck uses them            *)
(***************************************************************************)
JNum(n) == [t |-> "num", v |-> n]
JNaN == [t |-> "nan", v |-> 0]
JUndef == [t |-> "undef", v |-> 0]
JNull == [t |-> "null", v |-> 0]

\* ToNumber: undefined -> NaN, null -> 0
ToNumber(x) ==
    IF x.t = "num" THEN x ELSE IF x.t = "null" THEN JNum(0) ELSE JNaN

JAdd(a, b) ==
    LET x == ToNumber(a)
        y == ToNumber(b)
    IN IF x.t = "num" /\ y.t = "num" THEN JNum(x.v + y.v) ELSE JNaN

JSub(a, b) ==
    LET x == ToNumber(a)
        y == ToNumber(b)
    IN IF x.t = "num" /\ y.t = "num" THEN JNum(x.v - y.v) ELSE JNaN

\* Math.min: NaN if either argument is NaN
MathMin(a, b) ==
    LET x == ToNumber(a)
        y == ToNumber(b)
    IN IF x.t = "num" /\ y.t = "num"
       THEN (IF x.v <= y.v THEN x ELSE y)
       ELSE JNaN

\* a >= b: false whenever an operand is NaN
JGe(a, b) ==
    LET x == ToNumber(a)
        y == ToNumber(b)
    IN x.t = "num" /\ y.t = "num" /\ x.v >= y.v

\* Math.ceil(a / b) for positive integers
MathCeilDiv(a, b) == (a + b - 1) \div b

(***************************************************************************)
(* Stored strings of the bucket key and their JSON reading                 *)
(***************************************************************************)
\* a stored string: the text of a JSON object with (possibly missing) fields
\* tokens and lastRefill, the JSON text null, a text that is not JSON, or
\* the empty string
JsonObject(tokens, lastRefill) ==
    [kind |-> "json", tokens |-> tokens, lastRefill |-> lastRefill]
Garbage == [kind |-> "garbage", tokens |-> JUndef, lastRefill |-> JUndef]
NullJson == [kind |-> "null", tokens |-> JUndef, lastRefill |-> JUndef]
EmptyString == [kind |-> "empty", tokens |-> JUndef, lastRefill |-> JUndef]
NoValue == [kind |-> "none", tokens |-> JUndef, lastRefill |-> JUndef]

\* values another writer of the key may leave there
CorruptValues ==
    {Garbage, NullJson, JsonObject(JUndef, JUndef), JsonObject(JNum(1), JUndef)}

\* JSON.stringify({ tokens, lastRefill }): NaN is written as null, an
\* undefined field is left out
JSONStringify(tokens, lastRefill) ==
    LET ser(x) == IF x.t = "nan" THEN JNull ELSE x
    IN JsonObject(ser(tokens), ser(lastRefill))

\* JSON.parse(bucketData) followed by the reads of parsed.tokens and
\* parsed.lastRefill: a SyntaxError for a text that is not JSON, a TypeError
\* for null, else the two fields (undefined when missing)
JSONParse(raw) ==
    IF raw.kind = "json"
    THEN [throws |-> FALSE, tokens |-> raw.tokens, lastRefill |-> raw.lastRefill]
    ELSE [throws |-> TRUE, tokens |-> JUndef, lastRefill |-> JUndef]

(***************************************************************************)
(* CacheManager.get / set on the bucket key                                *)
(***************************************************************************)
RedisTtl == 3600
NoBucket == [present |-> FALSE, val |-> NoValue, exp |-> 0]

\* `if (bucketData)`: null (no key) and the empty string are falsy
Truthy(entry) == entry.present /\ entry.val.kind # "empty"

\* set(key, value, ttlSeconds): ttl = ttlSeconds || redisConfig.ttl, SETEX if
\* ttl > 0, else SET without expiry
set(value, ttlSeconds) ==
    LET ttl == IF ttlSeconds # 0 THEN ttlSeconds ELSE RedisTtl
    IN [present |-> TRUE, val |-> value,
        exp |-> IF ttl > 0 THEN clock + ttl * MsPerSecond ELSE NoExpiry]

(***************************************************************************)
(* CacheManager.rateLimitCheck                                             *)
(***************************************************************************)
\* tokensToAdd = Math.floor(((now - lastRefill) / 1000) * refillRate)
tokensToAdd_Ceil(now, lastRefill, rate) ==
    LET d == JSub(JNum(now), lastRefill)
    IN IF d.t = "num"
       THEN JNum((d.v * rate + MsPerSecond - 1) \div MsPerSecond)
       ELSE JNaN

tokensToAdd(now, lastRefill, rate) ==
    LET d == JSub(JNum(now), lastRefill)
    IN IF d.t = "num" THEN JNum((d.v * rate) \div MsPerSecond) ELSE JNaN

\* tokens = Math.min(maxTokens, tokens + tokensToAdd)
refill_NoCap(tokens, lastRefill, now, max, rate) ==
    JAdd(tokens, tokensToAdd(now, lastRefill, rate))

refill(tokens, lastRefill, now, max, rate) ==
    MathMin(JNum(max), JAdd(tokens, tokensToAdd(now, lastRefill, rate)))

\* if (tokens >= tokensRequested)
enough_Strict(tokens, tokensRequested) ==
    JGe(tokens, JNum(tokensRequested + 1))

enough(tokens, tokensRequested) == JGe(tokens, JNum(tokensRequested))

\* TTL of the bucket key: Math.ceil(maxTokens / refillRate) * 2
bucketTtl_Floor(max, rate) == (max \div rate) * 2

bucketTtl(max, rate) == MathCeilDiv(max, rate) * 2

\* the synchronous part of rateLimitCheck between the read and the write:
\* "throw" (into the catch block), "allow" with the tokens left, or "deny"
decide(entry, now, max, rate, tokensRequested) ==
    LET parsed == JSONParse(entry.val)
    IN IF Truthy(entry) /\ parsed.throws
       THEN [out |-> "throw", tokens |-> JNaN]
       ELSE LET tokens == IF Truthy(entry)
                          THEN refill(parsed.tokens, parsed.lastRefill, now, max, rate)
                          ELSE JNum(max)
            IN IF enough(tokens, tokensRequested)
               THEN [out |-> "allow", tokens |-> JSub(tokens, JNum(tokensRequested))]
               ELSE [out |-> "deny", tokens |-> tokens]

\* the denied path makes no store call: the entry stays as it is
onDenied_Persist(entry, tokens, now, ttlSeconds) ==
    set(JSONStringify(tokens, JNum(now)), ttlSeconds)

onDenied(entry, tokens, now, ttlSeconds) == entry

\* the value rateLimitCheck returns from its catch block
rateLimitCheck_catch == TRUE

\* pc: where the call in flight is suspended ("get": before the read, "set":
\* before the write); id, req, now, tokens: its locals; op, ret, cause: the
\* call that returned last and what made it return
IdleCheck == [pc |-> "idle", id |-> "u1", req |-> 0, now |-> 0, tokens |-> 0,
              op |-> "none", ret |-> FALSE, cause |-> "none"]

Returned(result, why) ==
    [IdleCheck EXCEPT !.op = "check", !.ret = result, !.cause = why]

\* rateLimitCheck up to the await of this.get(key): now = Date.now()
rateLimitCheck_call(p, identifier, tokensRequested) ==
    /\ rlCall[p].pc = "idle"
    /\ rlCall' = [rlCall EXCEPT ![p] =
                    [IdleCheck EXCEPT !.pc = "get", !.id = identifier,
                                      !.req = tokensRequested, !.now = clock]]
    /\ UNCHANGED <<auxVars, hostVars, kafkaVars, clock, storeUp, lockVars, maxTokens, refillRate, buckets>>

\* the whole check on the twin limiter, whose write carries no expiry; read
\* is the entry the limiter on the expiring store has read for this check
twinCheck(w, read, now, tokensRequested) ==
    LET d == decide(w.entry, now, maxTokens, refillRate, tokensRequested)
        stale == w.entry.present /\ ~read.present
    IN IF ~w.track
       THEN w
       ELSE IF d.out = "allow"
       THEN [w EXCEPT !.entry = [present |-> TRUE,
                                 val |-> JSONStringify(d.tokens, JNum(now)),
                                 exp |-> NoExpiry],
                      !.ret = "allow", !.idle = stale]
       ELSE [w EXCEPT !.ret = "deny", !.idle = stale]

\* the store answers the read (or get raises); the refill and the decision
\* follow without suspension, up to the await of this.set or to the return
rateLimitCheck_get_NoCatch(p) ==
    /\ rlCall[p].pc = "get"
    /\ LET c == rlCall[p]
           d == decide(buckets[c.id], c.now, maxTokens, refillRate, c.req)
       IN IF ~storeUp \/ d.out = "throw"
          THEN /\ rlCall' = [rlCall EXCEPT ![p] =
                               [IdleCheck EXCEPT !.op = "raised"]]
               /\ UNCHANGED buckets
          ELSE IF d.out = "allow"
          THEN /\ rlCall' = [rlCall EXCEPT ![p] =
                               [c EXCEPT !.pc = "set", !.tokens = d.tokens.v]]
               /\ UNCHANGED buckets
          ELSE /\ rlCall' = [rlCall EXCEPT ![p] = Returned(FALSE, "denied")]
               /\ UNCHANGED buckets
    /\ twin' = IF storeUp
               THEN twinCheck(twin, buckets[rlCall[p].id], rlCall[p].now, rlCall[p].req)
               ELSE twin
    /\ UNCHANGED <<window, run, startCall, tx, hostVars, kafkaVars, clock, storeUp, lockVars, maxTokens,
                   refillRate>>

rateLimitCheck_get(p) ==
    /\ rlCall[p].pc = "get"
    /\ LET c == rlCall[p]
           d == decide(buckets[c.id], c.now, maxTokens, refillRate, c.req)
       IN IF ~storeUp
          THEN /\ rlCall' = [rlCall EXCEPT ![p] =
                               Returned(rateLimitCheck_catch, "read_error")]
               /\ UNCHANGED buckets
          ELSE IF d.out = "throw"
          THEN /\ rlCall' = [rlCall EXCEPT ![p] =
                               Returned(rateLimitCheck_catch, "parse_error")]
               /\ UNCHANGED buckets
          ELSE IF d.out = "allow"
          THEN /\ rlCall' = [rlCall EXCEPT ![p] =
                               [c EXCEPT !.pc = "set", !.tokens = d.tokens.v]]
               /\ UNCHANGED buckets
          ELSE /\ rlCall' = [rlCall EXCEPT ![p] = Returned(FALSE, "denied")]
               /\ buckets' = [buckets EXCEPT ![c.id] =
                                onDenied(@, d.tokens, c.now,
                                         bucketTtl(maxTokens, refillRate))]
    /\ twin' = IF storeUp
               THEN twinCheck(twin, buckets[rlCall[p].id], rlCall[p].now, rlCall[p].req)
               ELSE twin
    /\ UNCHANGED <<window, run, startCall, tx, hostVars, kafkaVars, clock, storeUp, lockVars, maxTokens,
                   refillRate>>

\* the tokens of a check that returned true are added to the open window
granted(w, tokensRequested) ==
    IF w.open THEN [w EXCEPT !.granted = @ + tokensRequested] ELSE w

\* an allowed check c that read entry continues the tracked run when it was
\* made less than 1/refillRate seconds after the lastRefill it read, and
\* starts a new run otherwise
extended(r, entry, c) ==
    LET parsed == JSONParse(entry.val)
    IN IF ~r.track
       THEN r
       ELSE IF /\ r.on
               /\ Truthy(entry)
               /\ parsed.lastRefill.t = "num"
               /\ (c.now - parsed.lastRefill.v) * refillRate < MsPerSecond
       THEN [r EXCEPT !.spent = @ + c.req]
       ELSE [track |-> TRUE, on |-> TRUE, since |-> c.now,
             base |-> c.tokens + c.req, spent |-> c.req]

\* the store executes the write (or set raises) and rateLimitCheck returns
rateLimitCheck_set_Recheck(p) ==
    /\ rlCall[p].pc = "set"
    /\ LET c == rlCall[p]
           d == decide(buckets[c.id], c.now, maxTokens, refillRate, c.req)
       IN IF ~storeUp
          THEN /\ rlCall' = [rlCall EXCEPT ![p] =
                               Returned(rateLimitCheck_catch, "write_error")]
               /\ UNCHANGED buckets
          ELSE IF d.out # "allow"
          THEN /\ rlCall' = [rlCall EXCEPT ![p] = Returned(FALSE, "denied")]
               /\ UNCHANGED buckets
          ELSE /\ rlCall' = [rlCall EXCEPT ![p] = Returned(TRUE, "allowed")]
               /\ buckets' = [buckets EXCEPT ![c.id] =
                                set(JSONStringify(d.tokens, JNum(c.now)),
                                    bucketTtl(maxTokens, refillRate))]
    /\ window' = IF rlCall'[p].cause = "allowed"
                 THEN granted(window, rlCall[p].req)
                 ELSE window
    /\ run' = IF rlCall'[p].cause = "allowed"
              THEN extended(run, buckets[rlCall[p].id], rlCall[p])
              ELSE run
    /\ UNCHANGED <<twin, startCall, tx, hostVars, kafkaVars, clock, storeUp, lockVars, maxTokens, refillRate>>

rateLimitCheck_set(p) ==
    /\ rlCall[p].pc = "set"
    /\ LET c == rlCall[p]
       IN IF ~storeUp
          THEN /\ rlCall' = [rlCall EXCEPT ![p] =
                               Returned(rateLimitCheck_catch, "write_error")]
               /\ UNCHANGED buckets
          ELSE /\ rlCall' = [rlCall EXCEPT ![p] = Returned(TRUE, "allowed")]
               /\ buckets' = [buckets EXCEPT ![c.id] =
                                set(JSONStringify(JNum(c.tokens), JNum(c.now)),
                                    bucketTtl(maxTokens, refillRate))]
    /\ window' = IF rlCall'[p].cause = "allowed"
                 THEN granted(window, rlCall[p].req)
                 ELSE window
    /\ run' = IF rlCall'[p].cause = "allowed"
              THEN extended(run, buckets[rlCall[p].id], rlCall[p])
              ELSE run
    /\ UNCHANGED <<twin, startCall, tx, hostVars, kafkaVars, clock, storeUp, lockVars, maxTokens, refillRate>>

\* another user of the store connection writes the bucket key through
\* CacheManager.set(key, value) without a ttl
setBucketKey(identifier, value) ==
    /\ storeUp
    /\ buckets' = [buckets EXCEPT ![identifier] = set(value, 0)]
    /\ UNCHANGED <<auxVars, hostVars, kafkaVars, clock, storeUp, lockVars, maxTokens, refillRate, rlCall>>

(***************************************************************************)
(* Environment: time and store availability                                *)
(***************************************************************************)
ExpireLocks(t) ==
    [k \in LockKeys |-> IF Expired(locks[k], t) THEN NoLock ELSE locks[k]]

ExpireBuckets(t) ==
    [i \in Identifiers |-> IF Expired(buckets[i], t) THEN NoBucket ELSE buckets[i]]

Tick ==
    /\ clock < MaxClock
    /\ clock' = clock + TickMs
    /\ locks' = ExpireLocks(clock')
    /\ owners' = {g \in owners : g.exp > clock'}
    /\ buckets' = ExpireBuckets(clock')
    /\ UNCHANGED <<auxVars, hostVars, kafkaVars, storeUp, lockCall, maxTokens, refillRate, rlCall>>

StoreFail ==
    /\ storeUp
    /\ storeUp' = FALSE
    /\ UNCHANGED <<auxVars, hostVars, kafkaVars, clock, lockVars, rateVars>>

StoreRecover ==
    /\ ~storeUp
    /\ storeUp' = TRUE
    /\ UNCHANGED <<auxVars, hostVars, kafkaVars, clock, lockVars, rateVars>>

(***************************************************************************)
(* Kafka: topics, records and the cluster                                  *)
(***************************************************************************)
\* kafkaConfig.topics: the topics the consumer is subscribed to and the
\* dead-letter topic
InTopics == {"raw-content", "moderation-results"}
DeadLetterTopic == "dead-letter"
Topics == InTopics \cup {DeadLetterTopic}

\* a Kafka key that is null
NoKey == "null"
NoHeaders == [user |-> "none", originalTopic |-> "none", failureReason |-> "none"]
NoError == [name |-> "none", message |-> "none"]
NoOriginal == [topic |-> "none", partition |-> 0, offset |-> 0, key |-> "none",
               value |-> "none", headers |-> NoHeaders]

\* a record as the cluster carries it; value stands for the JSON text, whose
\* members are body for a content record and originalMessage, error for a
\* dead-letter record
Record(key, body, headers, originalMessage, error) ==
    [key |-> key, headers |-> headers,
     value |-> [body |-> body, originalMessage |-> originalMessage, error |-> error]]
NoRecord == Record("none", "none", NoHeaders, NoOriginal, NoError)

\* the records published to the consumed topics
ContentRecords ==
    {Record("k1", "v1", [NoHeaders EXCEPT !.user = "hd1"], NoOriginal, NoError),
     Record(NoKey, "v2", [NoHeaders EXCEPT !.user = "hd2"], NoOriginal, NoError)}

\* the errors a message handler raises
Errors == {[name |-> "Error", message |-> "boom"],
           [name |-> "ValidationError", message |-> "bad input"]}

\* the callers of the producer: application code and the consumer's
\* handleFailedMessage
Callers == {"app", "consumer"}

\* pc: "send" while producer.send is pending; api, topic, record: the call;
\* attempts: send attempts made by the client library so far; errorLogs:
\* logger.error events emitted for this call; outcome: what the caller got
\* ("receipt", "KafkaError"; "none" while pending or before the first call)
IdlePub == [pc |-> "idle", api |-> "none", topic |-> "none", record |-> NoRecord,
            attempts |-> 0, errorLogs |-> 0, outcome |-> "none"]

\* message handlers registered by the application, and the empty map slot
Handlers == {"h1", "h2"}
NoHandler == "undefined"

IdleSub == [pc |-> "idle", topic |-> "none", handler |-> NoHandler, outcome |-> "none"]

\* pc: "handler" while the handler runs, "deadLetter" while sendToDeadLetter
\* is pending; ret: how the last invocation ended ("normal", "throw")
IdleCb == [pc |-> "idle", topic |-> "none", offset |-> 0, handler |-> NoHandler,
           error |-> NoError, ret |-> "none", path |-> "none"]

InitKafka ==
    /\ brokerUp = TRUE
    /\ log = [t \in Topics |-> <<>>]
    /\ prodConnected = FALSE
    /\ pub = [c \in Callers |-> IdlePub]
    /\ consConnected = FALSE
    /\ messageHandlers = [t \in Topics |-> NoHandler]
    /\ sub = IdleSub
    /\ running = FALSE
    /\ position = [t \in Topics |-> 0]
    /\ cb = IdleCb

\* the components with a connect() method: DatabaseManager, CacheManager,
\* KafkaProducerManager, KafkaConsumerManager
Components == {"database", "store", "producer", "consumer"}

\* pc: "connect", "disconnect" while the client's call is awaited; outcome:
\* what the caller of the last connect() or disconnect() got ("ok", or the
\* name of the raised error); logged: its catch block called logger.error
IdleConn == [pc |-> "idle", outcome |-> "none", logged |-> FALSE]

\* queue: the requests waiting in the connection's request queue, by caller;
\* flying: the requests sent and not yet answered or failed; answered: those
\* of them the broker has processed; stored: the callers whose pending
\* logical send the broker has appended (its sequence state for the producer)
IdleWire == [queue |-> <<>>, flying |-> {}, answered |-> {}, stored |-> {}]

\* no observation window is open; an open one records when it began and
\* the tokens granted to the identifier since
NoWindow == [open |-> FALSE, start |-> 0, granted |-> 0]

\* runs are not tracked; a tracked run records the time of its first
\* check, the tokens that check found after its refill, and the tokens the
\* checks of the run were granted
NoRun == [track |-> FALSE, on |-> FALSE, since |-> 0, base |-> 0, spent |-> 0]

\* no twin limiter is kept; a kept one holds its bucket entry, the result
\* of its last check ("allow", "deny") and whether that check found the
\* key expired in the store while the twin still held it
NoTwin == [track |-> FALSE, entry |-> NoBucket, ret |-> "none", idle |-> FALSE]

\* pc: the await at which transaction() is suspended ("connect", "BEGIN",
\* "callback", "COMMIT", "ROLLBACK"); stmts: the statements issued on the
\* pooled client; ran: how the callback ended ("none", "ok", "throw");
\* released: calls of client.release(); outcome: what the caller got
\* ("result", "DatabaseError", or "Error" for an error raised as it came)
IdleTx == [pc |-> "idle", stmts |-> <<>>, ran |-> "none", released |-> 0,
           outcome |-> "none"]

\* what the constructors and module loading leave besides the above
InitHost ==
    /\ restart = FALSE
    /\ wire = IdleWire
    /\ dbConnected = FALSE
    /\ cacheConnected = FALSE
    /\ connCall = [c \in Components |-> IdleConn]
    /\ server = "new"
    /\ window = NoWindow
    /\ run = NoRun
    /\ twin = NoTwin
    /\ startCall = "none"
    /\ tx = [p \in Procs |-> IdleTx]

\* the cluster becomes unreachable / reachable again
BrokerFail ==
    /\ brokerUp
    /\ brokerUp' = FALSE
    /\ UNCHANGED <<auxVars, hostVars, cacheVars, log, prodVars, consVars>>

BrokerRecover ==
    /\ ~brokerUp
    /\ brokerUp' = TRUE
    /\ UNCHANGED <<auxVars, hostVars, cacheVars, log, prodVars, consVars>>

(***************************************************************************)
(* KafkaProducerManager                                                    *)
(***************************************************************************)
\* kafka.producer({ retry: { retries: 5 } }): after a failed send the client
\* library retries up to this many times before producer.send rejects
ProducerRetries == 5

\* connect(): no-op when connected; producer.connect() raises while the
\* cluster is unreachable (KafkaError, isConnected stays false)
producerConnect ==
    /\ ~prodConnected
    /\ brokerUp
    /\ prodConnected' = TRUE
    /\ UNCHANGED <<auxVars, hostVars, cacheVars, brokerVars, pub, consVars>>

\* disconnect(), and the 'producer.disconnect' event handler
producerDisconnect ==
    /\ prodConnected
    /\ prodConnected' = FALSE
    /\ UNCHANGED <<auxVars, hostVars, cacheVars, brokerVars, pub, consVars>>

\* what sendMessage raises from its guard and from its catch block
sendMessage_notConnected == "KafkaError"
sendMessage_catch_Swallow == "none"
sendMessage_catch == "KafkaError"

\* a publish method up to the await of producer.send: sendMessage raises at
\* once when not connected and the method's catch block logs and rethrows
sendMessage_call(api, topic, record) ==
    LET q == [IdlePub EXCEPT !.api = api, !.topic = topic, !.record = record]
    IN IF ~prodConnected
       THEN [q EXCEPT !.outcome = sendMessage_notConnected, !.errorLogs = 1]
       ELSE [q EXCEPT !.pc = "send"]

\* one send attempt of the client library for caller c's pending publish:
\* the cluster appends the record and producer.send resolves; or the attempt
\* fails and the library retries; or the retries are used up, producer.send
\* rejects, sendMessage logs and raises, the publish method logs and rethrows
producer_send(c) ==
    /\ pub[c].pc = "send"
    /\ LET q == pub[c]
           made == q.attempts + 1
       IN IF brokerUp
          THEN /\ log' = [log EXCEPT ![q.topic] = Append(@, q.record)]
               /\ pub' = [pub EXCEPT ![c] =
                            [q EXCEPT !.pc = "idle", !.attempts = made,
                                      !.outcome = "receipt"]]
          ELSE IF made <= ProducerRetries
          THEN /\ pub' = [pub EXCEPT ![c] = [q EXCEPT !.attempts = made]]
               /\ UNCHANGED log
          ELSE /\ pub' = [pub EXCEPT ![c] =
                            [q EXCEPT !.pc = "idle", !.attempts = made,
                                      !.errorLogs = 2,
                                      !.outcome = sendMessage_catch]]
               /\ UNCHANGED log
    /\ UNCHANGED <<auxVars, hostVars, cacheVars, brokerUp, prodConnected, consVars>>

\* publishContentEvent(contentEvent) called by the application
publishContentEvent(record) ==
    /\ pub["app"].pc = "idle"
    /\ Len(log["raw-content"]) < MaxLog
    /\ pub' = [pub EXCEPT !["app"] =
                 sendMessage_call("publishContentEvent", "raw-content", record)]
    /\ UNCHANGED <<auxVars, hostVars, cacheVars, brokerVars, prodConnected, consVars>>

\* sendToDeadLetter's message: key = originalMessage.key || 'unknown', value =
\* JSON of {originalMessage, error: {message, stack, name}, ...}, headers
\* {originalTopic: 'unknown', failureReason: processingError.name, ...}
deadLetterMessage_NoError(originalMessage, processingError) ==
    Record(IF originalMessage.key = NoKey THEN "unknown" ELSE originalMessage.key,
           "none",
           [NoHeaders EXCEPT !.originalTopic = "unknown",
                             !.failureReason = processingError.name],
           originalMessage, NoError)

deadLetterMessage(originalMessage, processingError) ==
    Record(IF originalMessage.key = NoKey THEN "unknown" ELSE originalMessage.key,
           "none",
           [NoHeaders EXCEPT !.originalTopic = "unknown",
                             !.failureReason = processingError.name],
           originalMessage, processingError)

\* sendToDeadLetter(originalMessage, processingError) up to the await of
\* producer.send
sendToDeadLetter_call(originalMessage, processingError) ==
    sendMessage_call("sendToDeadLetter", DeadLetterTopic,
                     deadLetterMessage(originalMessage, processingError))

(***************************************************************************)
(* KafkaConsumerManager                                                    *)
(***************************************************************************)
\* connect(): no-op when connected; raises while the cluster is unreachable
consumerConnect ==
    /\ ~consConnected
    /\ brokerUp
    /\ consConnected' = TRUE
    /\ UNCHANGED <<auxVars, hostVars, cacheVars, brokerVars, prodVars, messageHandlers, sub,
                   running, position, cb>>

\* disconnect(), and the 'consumer.disconnect' event handler; the client
\* library stops its runner
consumerDisconnect ==
    /\ consConnected
    /\ consConnected' = FALSE
    /\ running' = FALSE
    /\ UNCHANGED <<auxVars, hostVars, cacheVars, brokerVars, prodVars, messageHandlers, sub,
                   position, cb>>

\* subscribe(topic, handler) up to the await of consumer.subscribe
subscribe_call(topic, handler) ==
    /\ sub.pc = "idle"
    /\ sub' = IF ~consConnected
              THEN [IdleSub EXCEPT !.outcome = "KafkaError"]
              ELSE [IdleSub EXCEPT !.pc = "subscribe", !.topic = topic,
                                   !.handler = handler]
    /\ UNCHANGED <<auxVars, hostVars, cacheVars, brokerVars, prodVars, consConnected,
                   messageHandlers, running, position, cb>>

\* this.messageHandlers.set(topic, handler)
messageHandlers_set_KeepFirst(topic, handler) ==
    IF messageHandlers[topic] = NoHandler
    THEN [messageHandlers EXCEPT ![topic] = handler]
    ELSE messageHandlers

messageHandlers_set(topic, handler) == [messageHandlers EXCEPT ![topic] = handler]

\* consumer.subscribe resolves and the handler is registered, or it rejects
\* and subscribe raises KafkaError
subscribe_RegisterFirst ==
    /\ sub.pc = "subscribe"
    /\ messageHandlers' = messageHandlers_set(sub.topic, sub.handler)
    /\ sub' = [IdleSub EXCEPT !.outcome = IF brokerUp THEN "ok" ELSE "KafkaError"]
    /\ UNCHANGED <<auxVars, hostVars, cacheVars, brokerVars, prodVars, consConnected, running,
                   position, cb>>

subscribe ==
    /\ sub.pc = "subscribe"
    /\ IF brokerUp
       THEN /\ messageHandlers' = messageHandlers_set(sub.topic, sub.handler)
            /\ sub' = [IdleSub EXCEPT !.outcome = "ok"]
       ELSE /\ UNCHANGED messageHandlers
            /\ sub' = [IdleSub EXCEPT !.outcome = "KafkaError"]
    /\ UNCHANGED <<auxVars, hostVars, cacheVars, brokerVars, prodVars, consConnected, running,
                   position, cb>>

\* startConsuming() on a connected consumer with consumer.run resolving:
\* the loop is started
startConsuming ==
    /\ consConnected
    /\ brokerUp
    /\ ~running
    /\ running' = TRUE
    /\ startCall' = "ok"
    /\ UNCHANGED <<window, run, twin, tx, hostVars, cacheVars, brokerVars, prodVars,
                   consConnected, messageHandlers, sub, position, cb>>

\* what startConsuming raises from its guard and from its catch block
startConsuming_notConnected == "KafkaError"
startConsuming_catch == "KafkaError"

\* startConsuming() that raises: the consumer is not connected, or
\* consumer.run rejects
startConsuming_raise ==
    /\ ~running
    /\ ~consConnected \/ ~brokerUp
    /\ startCall' = IF ~consConnected THEN startConsuming_notConnected
                    ELSE startConsuming_catch
    /\ UNCHANGED <<window, run, twin, tx, hostVars, cacheVars, brokerVars, prodVars,
                   consConnected, messageHandlers, sub, running, position, cb>>

\* stopConsuming(): consumer.stop()
stopConsuming ==
    /\ running
    /\ running' = FALSE
    /\ UNCHANGED <<auxVars, hostVars, cacheVars, brokerVars, prodVars, consConnected,
                   messageHandlers, sub, position, cb>>

\* the record other services publish to a consumed topic: keyed on one
\* topic, with a null key on the other
RecordOn(topic) ==
    IF topic = "raw-content"
    THEN Record("k1", "v1", [NoHeaders EXCEPT !.user = "hd1"], NoOriginal, NoError)
    ELSE Record(NoKey, "v2", [NoHeaders EXCEPT !.user = "hd2"], NoOriginal, NoError)

\* another service's producer gets a record accepted on a consumed topic
brokerAppend(topic, record) ==
    /\ brokerUp
    /\ Len(log[topic]) < MaxLog
    /\ log' = [log EXCEPT ![topic] = Append(@, record)]
    /\ UNCHANGED <<auxVars, hostVars, cacheVars, brokerUp, prodVars, consVars>>

\* the runner of the client library once the callback has settled: a
\* callback that returned has its offset resolved and the next record of the
\* partition is delivered; one that raised has the same record delivered again
runner_resolve_Stay(topic, ret) == position

runner_resolve_Skip(topic, ret) == [position EXCEPT ![topic] = @ + 2]

runner_resolve(topic, ret) ==
    IF ret = "normal" THEN [position EXCEPT ![topic] = @ + 1] ELSE position

\* how the callback ends: without a handler (warn, return), from the catch
\* block around the handler (handleFailedMessage is awaited), and from
\* handleFailedMessage's own catch block (log only)
eachMessage_noHandler_Throw == "throw"
eachMessage_noHandler == "normal"
eachMessage_catch_Rethrow == "throw"
eachMessage_catch == "handleFailedMessage"
handleFailedMessage_catch_Rethrow == "throw"
handleFailedMessage_catch == "normal"

CbReturned(ret, path) == [IdleCb EXCEPT !.ret = ret, !.path = path]

\* originalMessage built by handleFailedMessage from the payload
originalMessage(topic, offset, record) ==
    [topic |-> topic, partition |-> 0, offset |-> offset, key |-> record.key,
     value |-> record.value.body, headers |-> record.headers]

\* the runner delivers the next record of a topic to eachMessage, which
\* looks the handler up and either returns (no handler) or awaits it
eachMessage_call(topic) ==
    /\ running
    /\ cb.pc = "idle"
    /\ position[topic] < Len(log[topic])
    /\ LET handler == messageHandlers[topic]
       IN IF handler = NoHandler
          THEN /\ cb' = CbReturned(eachMessage_noHandler, "skipped")
               /\ position' = runner_resolve(topic, eachMessage_noHandler)
          ELSE /\ cb' = [IdleCb EXCEPT !.pc = "handler", !.topic = topic,
                                       !.offset = position[topic],
                                       !.handler = handler]
               /\ UNCHANGED position
    /\ UNCHANGED <<auxVars, hostVars, cacheVars, brokerVars, prodVars, consConnected,
                   messageHandlers, sub, running>>

\* the handler resolves and eachMessage returns
handler_ok ==
    /\ cb.pc = "handler"
    /\ cb' = CbReturned("normal", "handled")
    /\ position' = runner_resolve(cb.topic, "normal")
    /\ UNCHANGED <<auxVars, hostVars, cacheVars, brokerVars, prodVars, consConnected,
                   messageHandlers, sub, running>>

\* a catch block that treats a record of the dead-letter topic as terminal
handler_raise_Terminal(error) ==
    /\ cb.pc = "handler"
    /\ IF cb.topic = DeadLetterTopic
       THEN /\ cb' = CbReturned("normal", "raised")
            /\ position' = runner_resolve(cb.topic, "normal")
            /\ UNCHANGED pub
       ELSE /\ cb' = [cb EXCEPT !.pc = "deadLetter", !.error = error]
            /\ pub' = [pub EXCEPT !["consumer"] =
                         sendToDeadLetter_call(
                             originalMessage(cb.topic, cb.offset,
                                             log[cb.topic][cb.offset + 1]),
                             error)]
            /\ UNCHANGED position
    /\ UNCHANGED <<auxVars, hostVars, cacheVars, brokerVars, prodConnected, consConnected,
                   messageHandlers, sub, running>>

\* the handler rejects with error: the catch block logs and awaits
\* handleFailedMessage, which builds originalMessage and awaits
\* sendToDeadLetter
handler_raise(error) ==
    /\ cb.pc = "handler"
    /\ IF eachMessage_catch = "throw"
       THEN /\ cb' = CbReturned("throw", "raised")
            /\ position' = runner_resolve(cb.topic, "throw")
            /\ UNCHANGED pub
       ELSE /\ cb' = [cb EXCEPT !.pc = "deadLetter", !.error = error]
            /\ pub' = [pub EXCEPT !["consumer"] =
                         sendToDeadLetter_call(
                             originalMessage(cb.topic, cb.offset,
                                             log[cb.topic][cb.offset + 1]),
                             error)]
            /\ UNCHANGED position
    /\ UNCHANGED <<auxVars, hostVars, cacheVars, brokerVars, prodConnected, consConnected,
                   messageHandlers, sub, running>>

\* sendToDeadLetter has settled: handleFailedMessage returns, after logging
\* in its catch block when the publish raised, and eachMessage returns
handleFailedMessage ==
    /\ cb.pc = "deadLetter"
    /\ pub["consumer"].pc = "idle"
    /\ LET ok == pub["consumer"].outcome = "receipt"
           ret == IF ok THEN "normal" ELSE handleFailedMessage_catch
       IN /\ cb' = CbReturned(ret, IF ok THEN "deadLettered" ELSE "deadLetterFailed")
          /\ position' = runner_resolve(cb.topic, ret)
    /\ pub' = [pub EXCEPT !["consumer"] = IdlePub]
    /\ UNCHANGED <<auxVars, hostVars, cacheVars, brokerVars, prodConnected, consConnected,
                   messageHandlers, sub, running>>

\* retry.restartOnFailure of the Kafka client the consumer is built from:
\* logs and answers true
restartOnFailure == TRUE

\* fatal connection loss while consuming: the runner of the client library
\* gives up, the library disconnects the consumer ('consumer.disconnect':
\* isConnected = false), emits 'consumer.crash' (logged), asks
\* retry.restartOnFailure and arms its restart timer when the answer is true
consumerCrash ==
    /\ running
    /\ ~brokerUp
    /\ running' = FALSE
    /\ consConnected' = FALSE
    /\ restart' = restartOnFailure
    /\ UNCHANGED <<auxVars, cacheVars, brokerVars, prodVars, messageHandlers, sub,
                   position, cb, wire, dbConnected, cacheConnected, connCall,
                   server>>

\* the restart timer fires with the cluster reachable: the client library
\* connects and runs the consumer again with the eachMessage callback it was
\* given; 'consumer.connect' only logs, so isConnected is left as it is
consumerRestart ==
    /\ restart
    /\ brokerUp
    /\ restart' = FALSE
    /\ running' = TRUE
    /\ UNCHANGED <<auxVars, cacheVars, brokerVars, prodVars, consConnected,
                   messageHandlers, sub, position, cb, wire,
                   dbConnected, cacheConnected, connCall, server>>

(***************************************************************************)
(* connect() of the four components                                        *)
(***************************************************************************)
\* this.isConnected of component c
Connected(c) ==
    IF c = "database" THEN dbConnected
    ELSE IF c = "store" THEN cacheConnected
    ELSE IF c = "producer" THEN prodConnected
    ELSE consConnected

\* whether the client's connect can succeed now: the store and the cluster
\* are reachable or not; the database's reachability is not tracked, its
\* connect may go either way
Reachable(c) ==
    IF c = "database" THEN BOOLEAN
    ELSE IF c = "store" THEN {storeUp}
    ELSE {brokerUp}

\* the error connect() raises from its catch block
connect_catch_Swallow(c) == "ok"

connect_catch(c) ==
    IF c \in {"database", "store"} THEN "DatabaseError" ELSE "KafkaError"

\* connect() up to its first await: returns at once when isConnected is set
connect_begin(c) ==
    IF Connected(c) THEN [IdleConn EXCEPT !.outcome = "ok"]
    ELSE [IdleConn EXCEPT !.pc = "connect"]

\* connect() called on component c by its user
connect_call(c) ==
    /\ connCall[c].pc = "idle"
    /\ connCall' = [connCall EXCEPT ![c] = connect_begin(c)]
    /\ UNCHANGED <<auxVars, cacheVars, kafkaVars, restart, wire, dbConnected, cacheConnected,
                   server>>

\* the client's connect settles: isConnected = true and connect() returns,
\* or the catch block logs and raises the component's error
connect(c) ==
    /\ server # "exited"
    /\ connCall[c].pc = "connect"
    /\ \E ok \in Reachable(c) :
          /\ connCall' = [connCall EXCEPT ![c] =
                            [IdleConn EXCEPT !.outcome =
                                IF ok THEN "ok" ELSE connect_catch(c),
                                             !.logged = ~ok]]
          /\ dbConnected' = IF ok /\ c = "database" THEN TRUE ELSE dbConnected
          /\ cacheConnected' = IF ok /\ c = "store" THEN TRUE ELSE cacheConnected
          /\ prodConnected' = IF ok /\ c = "producer" THEN TRUE ELSE prodConnected
          /\ consConnected' = IF ok /\ c = "consumer" THEN TRUE ELSE consConnected
    /\ UNCHANGED <<auxVars, cacheVars, brokerVars, pub, messageHandlers, sub, running,
                   position, cb, restart, wire, server>>

\* what disconnect() does in its catch block: it logs and returns
disconnect_catch_Rethrow(c) == connect_catch(c)

disconnect_catch(c) == "ok"

\* disconnect() up to its first await: returns at once when isConnected is
\* not set
disconnect_begin(c) ==
    IF ~Connected(c) THEN [IdleConn EXCEPT !.outcome = "ok"]
    ELSE [IdleConn EXCEPT !.pc = "disconnect"]

\* disconnect() called on component c by its user
disconnect_call(c) ==
    /\ connCall[c].pc = "idle"
    /\ connCall' = [connCall EXCEPT ![c] = disconnect_begin(c)]
    /\ UNCHANGED <<auxVars, cacheVars, kafkaVars, restart, wire, dbConnected, cacheConnected,
                   server>>

\* the client's disconnect (pool.end for the database) settles:
\* isConnected = false and disconnect() returns, or the catch block logs
\* and disconnect() returns with isConnected as it is; a consumer that has
\* disconnected has stopped its runner
disconnect(c) ==
    /\ connCall[c].pc = "disconnect"
    /\ \E ok \in BOOLEAN :
          /\ connCall' = [connCall EXCEPT ![c] =
                            [IdleConn EXCEPT !.outcome =
                                IF ok THEN "ok" ELSE disconnect_catch(c),
                                             !.logged = ~ok]]
          /\ dbConnected' = IF ok /\ c = "database" THEN FALSE ELSE dbConnected
          /\ cacheConnected' = IF ok /\ c = "store" THEN FALSE ELSE cacheConnected
          /\ prodConnected' = IF ok /\ c = "producer" THEN FALSE ELSE prodConnected
          /\ consConnected' = IF ok /\ c = "consumer" THEN FALSE ELSE consConnected
          /\ running' = IF ok /\ c = "consumer" THEN FALSE ELSE running
    /\ UNCHANGED <<auxVars, cacheVars, brokerVars, pub, messageHandlers, sub,
                   position, cb, restart, wire, server>>

\* the store client's 'end' event: isConnected = false
cacheEnd ==
    /\ cacheConnected
    /\ cacheConnected' = FALSE
    /\ UNCHANGED <<auxVars, cacheVars, kafkaVars, restart, wire, dbConnected, connCall, server>>

(***************************************************************************)
(* DatabaseManager.transaction                                             *)
(***************************************************************************)
\* what transaction() raises from its catch block
transaction_catch == "DatabaseError"

\* transaction(callback) up to the await of this.pool.connect()
transaction_call(p) ==
    /\ tx[p].pc = "idle"
    /\ tx' = [tx EXCEPT ![p] = [IdleTx EXCEPT !.pc = "connect"]]
    /\ UNCHANGED <<window, run, twin, startCall, hostVars, cacheVars, kafkaVars>>

\* pool.connect() settles: with a client, and BEGIN is issued; or it
\* rejects, outside the try block, and the error reaches the caller as it is
transaction_connect(p) ==
    /\ tx[p].pc = "connect"
    /\ \E ok \in BOOLEAN :
          tx' = [tx EXCEPT ![p] =
                   IF ok THEN [@ EXCEPT !.pc = "BEGIN", !.stmts = <<"BEGIN">>]
                   ELSE [@ EXCEPT !.pc = "idle", !.outcome = "Error"]]
    /\ UNCHANGED <<window, run, twin, startCall, hostVars, cacheVars, kafkaVars>>

\* a rejected await inside the try block enters the catch block, whose
\* first statement issues ROLLBACK
catch(t) == [t EXCEPT !.pc = "ROLLBACK", !.stmts = Append(@, "ROLLBACK")]

\* client.query('BEGIN') settles: the callback is called, or the catch
\* block is entered
transaction_begin(p) ==
    /\ tx[p].pc = "BEGIN"
    /\ \E ok \in BOOLEAN :
          tx' = [tx EXCEPT ![p] =
                   IF ok THEN [@ EXCEPT !.pc = "callback"] ELSE catch(@)]
    /\ UNCHANGED <<window, run, twin, startCall, hostVars, cacheVars, kafkaVars>>

\* callback(client) settles: COMMIT is issued, or the catch block is entered
transaction_callback(p) ==
    /\ tx[p].pc = "callback"
    /\ \E ok \in BOOLEAN :
          tx' = [tx EXCEPT ![p] =
                   IF ok THEN [@ EXCEPT !.pc = "COMMIT", !.ran = "ok",
                                        !.stmts = Append(@, "COMMIT")]
                   ELSE catch([@ EXCEPT !.ran = "throw"])]
    /\ UNCHANGED <<window, run, twin, startCall, hostVars, cacheVars, kafkaVars>>

\* client.query('COMMIT') settles: the result is returned through the
\* finally block, which releases the client; or the catch block is entered
transaction_commit(p) ==
    /\ tx[p].pc = "COMMIT"
    /\ \E ok \in BOOLEAN :
          tx' = [tx EXCEPT ![p] =
                   IF ok THEN [@ EXCEPT !.pc = "idle", !.outcome = "result",
                                        !.released = @ + 1]
                   ELSE catch(@)]
    /\ UNCHANGED <<window, run, twin, startCall, hostVars, cacheVars, kafkaVars>>

\* client.query('ROLLBACK') settles inside the catch block: the block logs
\* and throws DatabaseError; or the query rejects and its error leaves the
\* catch block as it is; either way the finally block releases the client
transaction_rollback(p) ==
    /\ tx[p].pc = "ROLLBACK"
    /\ \E ok \in BOOLEAN :
          tx' = [tx EXCEPT ![p] =
                   [@ EXCEPT !.pc = "idle", !.released = @ + 1,
                             !.outcome = IF ok THEN transaction_catch ELSE "Error"]]
    /\ UNCHANGED <<window, run, twin, startCall, hostVars, cacheVars, kafkaVars>>

(***************************************************************************)
(* IngestApiServer.start                                                   *)
(***************************************************************************)
\* the services initializeServices connects: database, cache, kafkaProducer
BootComponents == {"database", "store", "producer"}

\* where start() ends when initializeServices raised: the catch block logs
\* and calls process.exit(1)
start_catch_Listen == "listening"

start_catch == "exited"

\* start() up to the await of Promise.all in initializeServices: the three
\* connect() calls are made one after the other, each up to its own await
server_start ==
    /\ server = "new"
    /\ \A c \in BootComponents : connCall[c].pc = "idle"
    /\ connCall' = [c \in Components |->
                      IF c \in BootComponents THEN connect_begin(c) ELSE connCall[c]]
    /\ server' = "services"
    /\ UNCHANGED <<auxVars, cacheVars, kafkaVars, restart, wire, dbConnected, cacheConnected>>

\* Promise.all resolves once the three connects have returned, and
\* mlInference.initialize() is awaited
initializeServices_connected ==
    /\ server = "services"
    /\ \A c \in BootComponents : connCall[c].outcome = "ok"
    /\ server' = "models"
    /\ UNCHANGED <<auxVars, cacheVars, kafkaVars, restart, wire, dbConnected, cacheConnected,
                   connCall>>

\* mlInference.initialize() settles: the models are loaded, or it raises MLError
mlInference_initialize ==
    /\ server = "models"
    /\ \E ok \in BOOLEAN : server' = IF ok THEN "modelsReady" ELSE "MLError"
    /\ UNCHANGED <<auxVars, cacheVars, kafkaVars, restart, wire, dbConnected, cacheConnected,
                   connCall>>

\* initializeServices returned: this.server = this.app.listen(port)
start_listen ==
    /\ server = "modelsReady"
    /\ server' = "listening"
    /\ UNCHANGED <<auxVars, cacheVars, kafkaVars, restart, wire, dbConnected, cacheConnected,
                   connCall>>

\* Promise.all rejected with the first connect that raised, or the model
\* initialisation raised: initializeServices logs and rethrows, start()'s
\* catch block logs and ends the process
start_failed ==
    /\ \/ /\ server = "services"
          /\ \E c \in BootComponents :
                connCall[c].pc = "idle" /\ connCall[c].outcome # "ok"
       \/ server = "MLError"
    /\ server' = start_catch
    /\ UNCHANGED <<auxVars, cacheVars, kafkaVars, restart, wire, dbConnected, cacheConnected,
                   connCall>>

(***************************************************************************)
(* producer.send on the wire: kafka.producer({ maxInFlightRequests: 1,     *)
(* idempotent: true, retry: { retries: 5 } })                              *)
(***************************************************************************)
maxInFlightRequests == 1

idempotent_Off == FALSE

idempotent == TRUE

InQueue(c) == \E n \in 1..Len(wire.queue) : wire.queue[n] = c

\* the client library queues the produce request of caller c's pending
\* send: for its first attempt, and again for every retry
request_enqueue(c) ==
    /\ pub[c].pc = "send"
    /\ ~InQueue(c)
    /\ c \notin wire.flying
    /\ wire' = [wire EXCEPT !.queue = Append(@, c)]
    /\ UNCHANGED <<auxVars, cacheVars, kafkaVars, restart, dbConnected, cacheConnected,
                   connCall, server>>

\* the connection sends the request at the head of its queue when fewer than
\* maxInFlightRequests requests are in flight
request_send ==
    /\ wire.queue # <<>>
    /\ Cardinality(wire.flying) < maxInFlightRequests
    /\ wire' = [wire EXCEPT !.queue = Tail(@), !.flying = @ \cup {Head(wire.queue)}]
    /\ UNCHANGED <<auxVars, cacheVars, kafkaVars, restart, dbConnected, cacheConnected,
                   connCall, server>>

\* the broker processes caller c's request: it appends the record, unless
\* the producer is idempotent and the sequence number shows that an earlier
\* attempt of the same send was appended already
broker_produce(c) ==
    /\ brokerUp
    /\ c \in wire.flying \ wire.answered
    /\ log' = IF idempotent /\ c \in wire.stored
              THEN log
              ELSE [log EXCEPT ![pub[c].topic] = Append(@, pub[c].record)]
    /\ wire' = [wire EXCEPT !.answered = @ \cup {c}, !.stored = @ \cup {c}]
    /\ UNCHANGED <<auxVars, cacheVars, brokerUp, prodVars, consVars, restart, dbConnected,
                   cacheConnected, connCall, server>>

\* the response reaches the client: producer.send resolves
request_response(c) ==
    /\ brokerUp
    /\ c \in wire.answered
    /\ pub' = [pub EXCEPT ![c] =
                 [@ EXCEPT !.pc = "idle", !.attempts = @ + 1, !.outcome = "receipt"]]
    /\ wire' = [wire EXCEPT !.flying = @ \ {c}, !.answered = @ \ {c},
                            !.stored = @ \ {c}]
    /\ UNCHANGED <<auxVars, cacheVars, brokerVars, prodConnected, consVars, restart,
                   dbConnected, cacheConnected, connCall, server>>

\* the connection breaks under caller c's request, before or after the
\* broker has processed it: the library retries, or the retries are used
\* up, producer.send rejects and sendMessage logs and raises
request_fail(c) ==
    /\ ~brokerUp
    /\ c \in wire.flying
    /\ LET made == pub[c].attempts + 1
           over == made > ProducerRetries
       IN /\ pub' = [pub EXCEPT ![c] =
                       IF over
                       THEN [@ EXCEPT !.pc = "idle", !.attempts = made,
                                      !.errorLogs = 2,
                                      !.outcome = sendMessage_catch]
                       ELSE [@ EXCEPT !.attempts = made]]
          /\ wire' = [wire EXCEPT !.flying = @ \ {c}, !.answered = @ \ {c},
                                  !.stored = IF over THEN @ \ {c} ELSE @]
    /\ UNCHANGED <<auxVars, cacheVars, brokerVars, prodConnected, consVars, restart,
                   dbConnected, cacheConnected, connCall, server>>

(***************************************************************************)
(* Specifications                                                          *)
(***************************************************************************)
Init ==
    /\ clock = 0
    /\ storeUp = TRUE
    /\ locks = [k \in LockKeys |-> NoLock]
    /\ lockCall = [p \in Procs |-> IdleCall]
    /\ owners = {}
    /\ \E cfg \in Configs : maxTokens = cfg[1] /\ refillRate = cfg[2]
    /\ buckets = [i \in Identifiers |-> NoBucket]
    /\ rlCall = [p \in Procs |-> IdleCheck]
    /\ InitKafka
    /\ InitHost

NextLock ==
    \/ \E p \in Procs, k \in LockKeys, s \in LockTtls, t \in OwnerTokens :
          acquireLock_call(p, k, s, t)
    \/ \E p \in Procs : acquireLock(p)
    \/ \E p \in Procs, k \in LockKeys, t \in OwnerTokens : releaseLock_call(p, k, t)
    \/ \E p \in Procs : releaseLock(p)
    \/ Tick
    \/ StoreFail
    \/ StoreRecover

SpecLock == Init /\ [][NextLock]_vars

NextRate ==
    \/ \E p \in Procs, i \in Identifiers, n \in Requests : rateLimitCheck_call(p, i, n)
    \/ \E p \in Procs : rateLimitCheck_get(p)
    \/ \E p \in Procs : rateLimitCheck_set(p)
    \/ \E i \in Identifiers, v \in CorruptValues : setBucketKey(i, v)
    \/ Tick
    \/ StoreFail
    \/ StoreRecover

SpecRate == Init /\ [][NextRate]_vars

\* the same operations on a bucket of DrainConfig: maxTokens = 10, refillRate = 1
InitDrain ==
    /\ clock = 0
    /\ storeUp = TRUE
    /\ locks = [k \in LockKeys |-> NoLock]
    /\ lockCall = [p \in Procs |-> IdleCall]
    /\ owners = {}
    /\ maxTokens = DrainConfig[1] /\ refillRate = DrainConfig[2]
    /\ buckets = [i \in Identifiers |-> NoBucket]
    /\ rlCall = [p \in Procs |-> IdleCheck]
    /\ InitKafka
    /\ InitHost

NextDrain ==
    \/ \E p \in Procs, i \in Identifiers, n \in Requests : rateLimitCheck_call(p, i, n)
    \/ \E p \in Procs : rateLimitCheck_get(p)
    \/ \E p \in Procs : rateLimitCheck_set(p)
    \/ Tick
    \/ StoreFail
    \/ StoreRecover

SpecDrain == InitDrain /\ [][NextDrain]_vars

\* the three fail-safe operations side by side, at one instant, one caller of
\* the lock and one of the rate limiter: every store operation may raise and
\* the bucket key may hold any stored string
NextCache ==
    \/ \E k \in LockKeys, s \in LockTtls, t \in OwnerTokens :
          acquireLock_call("p1", k, s, t)
    \/ acquireLock("p1")
    \/ \E k \in LockKeys, t \in OwnerTokens : releaseLock_call("p1", k, t)
    \/ releaseLock("p1")
    \/ \E i \in Identifiers, n \in Requests : rateLimitCheck_call("p2", i, n)
    \/ rateLimitCheck_get("p2")
    \/ rateLimitCheck_set("p2")
    \/ \E i \in Identifiers, v \in CorruptValues : setBucketKey(i, v)
    \/ StoreFail
    \/ StoreRecover

SpecCache == Init /\ [][NextCache]_vars

\* one caller's checks with every maxTokens and refillRate of 1..MaxParam
InitTtl ==
    /\ clock = 0
    /\ storeUp = TRUE
    /\ locks = [k \in LockKeys |-> NoLock]
    /\ lockCall = [p \in Procs |-> IdleCall]
    /\ owners = {}
    /\ maxTokens \in 1..MaxParam
    /\ refillRate \in 1..MaxParam
    /\ buckets = [i \in Identifiers |-> NoBucket]
    /\ rlCall = [p \in Procs |-> IdleCheck]
    /\ InitKafka
    /\ InitHost

NextTtl ==
    \/ \E i \in Identifiers, n \in Requests : rateLimitCheck_call("p1", i, n)
    \/ rateLimitCheck_get("p1")
    \/ rateLimitCheck_set("p1")
    \/ Tick

SpecTtl == InitTtl /\ [][NextTtl]_vars

\* the bucket of an identifier holds maxTokens for a check made now: it
\* has no key, or its stored tokens refilled up to now reach the cap
FullBucket(identifier) ==
    LET entry == buckets[identifier]
        parsed == JSONParse(entry.val)
    IN \/ ~Truthy(entry)
       \/ /\ ~parsed.throws
          /\ refill(parsed.tokens, parsed.lastRefill, clock, maxTokens, refillRate)
                = JNum(maxTokens)

\* an observer starts a window of time on a full bucket between two checks
windowOpen(identifier) ==
    /\ \A p \in Procs : rlCall[p].pc = "idle"
    /\ FullBucket(identifier)
    /\ window # [open |-> TRUE, start |-> clock, granted |-> 0]
    /\ window' = [open |-> TRUE, start |-> clock, granted |-> 0]
    /\ UNCHANGED <<run, twin, startCall, tx, hostVars, kafkaVars, cacheVars>>

\* an observer begins to follow the runs of allowed checks
runTrack ==
    /\ ~run.track
    /\ \A p \in Procs : rlCall[p].pc = "idle"
    /\ run' = [NoRun EXCEPT !.track = TRUE]
    /\ UNCHANGED <<window, twin, startCall, tx, hostVars, kafkaVars, cacheVars>>

\* a twin limiter is set up next to the limiter, for an identifier that
\* has no bucket key
twinTrack(identifier) ==
    /\ ~twin.track
    /\ \A p \in Procs : rlCall[p].pc = "idle"
    /\ ~buckets[identifier].present
    /\ twin' = [NoTwin EXCEPT !.track = TRUE]
    /\ UNCHANGED <<window, run, startCall, tx, hostVars, kafkaVars, cacheVars>>

\* one caller's checks one at a time on a healthy store, observed through
\* windows that start on a full bucket
NextWindow ==
    \/ \E i \in Identifiers, n \in Requests : rateLimitCheck_call("p1", i, n)
    \/ rateLimitCheck_get("p1")
    \/ rateLimitCheck_set("p1")
    \/ \E i \in Identifiers : windowOpen(i)
    \/ Tick

SpecWindow == InitTtl /\ [][NextWindow]_vars

\* one caller's checks one at a time on a healthy store, with the runs of
\* closely spaced allowed checks followed
NextRun ==
    \/ \E i \in Identifiers, n \in Requests : rateLimitCheck_call("p1", i, n)
    \/ rateLimitCheck_get("p1")
    \/ rateLimitCheck_set("p1")
    \/ runTrack
    \/ Tick

SpecRun == InitTtl /\ [][NextRun]_vars

\* one caller's checks one at a time on a healthy store, given to the
\* limiter and to its twin
NextExpiry ==
    \/ \E i \in Identifiers, n \in Requests : rateLimitCheck_call("p1", i, n)
    \/ rateLimitCheck_get("p1")
    \/ rateLimitCheck_set("p1")
    \/ \E i \in Identifiers : twinTrack(i)
    \/ Tick

SpecExpiry == InitTtl /\ [][NextExpiry]_vars

\* a consumer with handlers on a consumed topic and on the dead-letter
\* topic, the latter raising on every record, and a reachable cluster;
\* deliveries stop once the dead-letter topic holds MaxDead records
MaxDead == MaxLog + 2

NextDeadLetter ==
    \/ consumerConnect
    \/ producerConnect
    \/ \E t \in {"raw-content", DeadLetterTopic} : subscribe_call(t, "h1")
    \/ subscribe
    \/ startConsuming
    \/ brokerAppend("raw-content", RecordOn("raw-content"))
    \/ \E t \in {"raw-content", DeadLetterTopic} :
          Len(log[DeadLetterTopic]) < MaxDead /\ eachMessage_call(t)
    \/ cb.topic # DeadLetterTopic /\ handler_ok
    \/ \E e \in Errors : handler_raise(e)
    \/ handleFailedMessage
    \/ producer_send("consumer")

\* the runner delivers what it has fetched, a handler settles in finite
\* time, the publish is attempted and settles
SpecDeadLetter ==
    /\ Init /\ [][NextDeadLetter]_vars
    /\ WF_vars(cb.topic # DeadLetterTopic /\ handler_ok)
    /\ WF_vars(Len(log[DeadLetterTopic]) < MaxDead /\ eachMessage_call(DeadLetterTopic))
    /\ WF_vars(\E e \in Errors : cb.topic = DeadLetterTopic /\ handler_raise(e))
    /\ WF_vars(producer_send("consumer"))
    /\ WF_vars(handleFailedMessage)

\* connect() of each component with the store and the cluster failing
NextConnect ==
    \/ \E c \in Components : connect_call(c)
    \/ \E c \in Components : connect(c)
    \/ cacheEnd
    \/ producerDisconnect
    \/ consumerDisconnect
    \/ StoreFail
    \/ StoreRecover
    \/ BrokerFail
    \/ BrokerRecover

SpecConnect == InitDrain /\ [][NextConnect]_vars

\* connect() and disconnect() of each component, with the clients' calls
\* failing or not
NextDisconnect ==
    \/ \E c \in Components : connect_call(c)
    \/ \E c \in Components : connect(c)
    \/ \E c \in Components : disconnect_call(c)
    \/ \E c \in Components : disconnect(c)
    \/ cacheEnd
    \/ StoreFail
    \/ StoreRecover
    \/ BrokerFail
    \/ BrokerRecover

SpecDisconnect == InitDrain /\ [][NextDisconnect]_vars

\* transactions of two callers, each on its own pooled client, with every
\* awaited call failing or not
NextTransaction ==
    \/ \E p \in Procs : transaction_call(p)
    \/ \E p \in Procs : transaction_connect(p)
    \/ \E p \in Procs : transaction_begin(p)
    \/ \E p \in Procs : transaction_callback(p)
    \/ \E p \in Procs : transaction_commit(p)
    \/ \E p \in Procs : transaction_rollback(p)

SpecTransaction == Init /\ [][NextTransaction]_vars

\* subscribe and startConsuming on a consumer that connects and
\* disconnects, with the cluster failing
NextStart ==
    \/ consumerConnect
    \/ consumerDisconnect
    \/ \E t \in InTopics, h \in Handlers : subscribe_call(t, h)
    \/ subscribe
    \/ startConsuming
    \/ startConsuming_raise
    \/ stopConsuming
    \/ BrokerFail
    \/ BrokerRecover

SpecStart == Init /\ [][NextStart]_vars

\* start-up of the hosting process with the store and the cluster failing
NextBoot ==
    \/ server_start
    \/ \E c \in BootComponents : connect(c)
    \/ initializeServices_connected
    \/ mlInference_initialize
    \/ start_listen
    \/ start_failed
    \/ StoreFail
    \/ StoreRecover
    \/ BrokerFail
    \/ BrokerRecover

\* a settled promise's continuation is run by the event loop: start() goes
\* on once initializeServices has returned or raised
SpecBoot ==
    /\ InitDrain
    /\ [][NextBoot]_vars
    /\ WF_vars(start_listen)
    /\ WF_vars(start_failed)

\* from the producer's publishes to the consumer's handlers: the application
\* publishes to one consumed topic, another service to the other
NextPipeline ==
    \/ producerConnect
    \/ \E r \in ContentRecords : publishContentEvent(r)
    \/ producer_send("app")
    \/ consumerConnect
    \/ \E t \in InTopics : subscribe_call(t, "h1")
    \/ subscribe
    \/ startConsuming
    \/ brokerAppend("moderation-results", RecordOn("moderation-results"))
    \/ \E t \in InTopics : eachMessage_call(t)
    \/ handler_ok
    \/ BrokerFail
    \/ BrokerRecover

SpecPipeline == InitDrain /\ [][NextPipeline]_vars

\* concurrent publishes on the wire: the application publishes content
\* events while the consumer's handleFailedMessage publishes dead letters
NextWire ==
    \/ producerConnect
    \/ publishContentEvent(RecordOn("raw-content"))
    \/ \E c \in Callers : request_enqueue(c)
    \/ request_send
    \/ \E c \in Callers : broker_produce(c)
    \/ \E c \in Callers : request_response(c)
    \/ \E c \in Callers : request_fail(c)
    \/ consumerConnect
    \/ subscribe_call("moderation-results", "h1")
    \/ subscribe
    \/ startConsuming
    \/ brokerAppend("moderation-results", RecordOn("moderation-results"))
    \/ eachMessage_call("moderation-results")
    \/ \E e \in Errors : e.name = "Error" /\ handler_raise(e)
    \/ handleFailedMessage
    \/ BrokerFail
    \/ BrokerRecover

SpecWire == InitDrain /\ [][NextWire]_vars

NextProducer ==
    \/ producerConnect
    \/ producerDisconnect
    \/ \E r \in ContentRecords : publishContentEvent(r)
    \/ \E c \in Callers : producer_send(c)
    \/ BrokerFail
    \/ BrokerRecover

\* the rate limiter's parameters play no part in the Kafka components: their
\* specifications start from one parameter choice
SpecProducer == InitDrain /\ [][NextProducer]_vars

\* the per-message callback of the consumer with its dead-letter hand-off;
\* one handler per topic is registered, at any time
NextConsumer ==
    \/ consumerConnect
    \/ \E t \in InTopics : subscribe_call(t, "h1")
    \/ subscribe
    \/ startConsuming
    \/ \E t \in InTopics : brokerAppend(t, RecordOn(t))
    \/ \E t \in InTopics : eachMessage_call(t)
    \/ handler_ok
    \/ \E e \in Errors : handler_raise(e)
    \/ handleFailedMessage
    \/ producerConnect
    \/ producer_send("consumer")
    \/ BrokerFail
    \/ BrokerRecover

SpecConsumer == InitDrain /\ [][NextConsumer]_vars

\* registration and replacement of handlers while records are consumed
NextSubscribe ==
    \/ consumerConnect
    \/ consumerDisconnect
    \/ \E t \in InTopics, h \in Handlers : subscribe_call(t, h)
    \/ subscribe
    \/ startConsuming
    \/ stopConsuming
    \/ \E t \in InTopics : brokerAppend(t, RecordOn(t))
    \/ \E t \in InTopics : eachMessage_call(t)
    \/ handler_ok
    \/ BrokerFail
    \/ BrokerRecover

SpecSubscribe == InitDrain /\ [][NextSubscribe]_vars

\* the consumer's life cycle with connection losses
NextLifecycle ==
    \/ consumerConnect
    \/ consumerDisconnect
    \/ \E t \in InTopics : subscribe_call(t, "h1")
    \/ subscribe
    \/ startConsuming
    \/ stopConsuming
    \/ consumerCrash
    \/ consumerRestart
    \/ \E t \in InTopics : brokerAppend(t, RecordOn(t))
    \/ \E t \in InTopics : eachMessage_call(t)
    \/ handler_ok
    \/ BrokerFail
    \/ BrokerRecover

SpecLifecycle == InitDrain /\ [][NextLifecycle]_vars

Next == NextLock \/ NextRate \/ NextProducer \/ NextConsumer \/ NextSubscribe
           \/ NextLifecycle \/ NextCache \/ NextTtl \/ NextConnect
           \/ NextBoot \/ NextPipeline \/ NextWire \/ NextWindow \/ NextRun \/ NextExpiry
           \/ NextDeadLetter \/ NextDisconnect \/ NextStart
           \/ NextTransaction

Spec == Init /\ [][Next]_vars

(***************************************************************************)
(* Distributed lock: properties (checked under SpecLock)                   *)
(***************************************************************************)
\* the step in which process p's call of kind op returns
Returns(p, op) == lockCall[p].pc = op /\ lockCall'[p].pc = "idle"

Holds(k, t) == locks[k].present /\ locks[k].val = t

\* C2: for every lockKey and at every instant at most one ownerToken is a live
\* owner, a live owner being a grant (acquireLock returned true) that was
\* neither released by releaseLock nor removed by TTL expiry.
C2_MutualExclusion ==
    \A k \in LockKeys : Cardinality({g \in owners : g.key = k}) <= 1

\* a grant is live while another token's acquireLock on the key was refused
C2_Witness ==
    \E g \in owners, p \in Procs :
        /\ lockCall[p].op = "acquire" /\ lockCall[p].key = g.key
        /\ lockCall[p].token # g.token
        /\ ~lockCall[p].ret /\ ~lockCall[p].err

\* C3: releaseLock(K, T) returns true exactly when the store evaluates its
\* script while the entry for K holds T, and only then is the entry deleted;
\* when the entry is absent or holds another token it returns false and the
\* entry (value and expiry) is left as it was.
C3_ReleaseOwnerOnly ==
    [][\A p \in Procs : Returns(p, "release") =>
          LET c == lockCall[p]
              match == Holds(c.key, c.token)
          IN /\ storeUp => (lockCall'[p].ret = match)
             /\ lockCall'[p].ret => (match /\ ~locks'[c.key].present)
             /\ ~match => (~lockCall'[p].ret /\ locks' = locks)
             /\ \A k \in LockKeys \ {c.key} : locks'[k] = locks[k]]_vars

\* a wrong-owner release returned false and the owner's release returned true
C3_Witness ==
    \E p, q \in Procs :
        /\ lockCall[p].op = "release" /\ lockCall[p].ret
        /\ lockCall[q].op = "release" /\ ~lockCall[q].ret /\ ~lockCall[q].err
        /\ lockCall[q].key = lockCall[p].key
        /\ lockCall[q].token # lockCall[p].token

\* C4: the compare and the delete of releaseLock are one store step: whatever
\* expiries and acquires happened since the call was issued, a releaseLock(K, T1)
\* never removes or changes an entry whose value is another token T2.
C4_ReleaseAtomic ==
    [][\A p \in Procs : Returns(p, "release") =>
          \A k \in LockKeys :
              (locks[k].present /\ locks[k].val # lockCall[p].token)
                  => locks'[k] = locks[k]]_vars

\* the caller held the lock when it issued releaseLock; the entry expired and
\* another token acquired the key before the script ran: the release returned
\* false and the new owner's entry is in place
C4_Witness ==
    \E p \in Procs :
        /\ lockCall[p].op = "release" /\ lockCall[p].own
        /\ ~lockCall[p].ret /\ ~lockCall[p].err
        /\ locks[lockCall[p].key].present
        /\ locks[lockCall[p].key].val # lockCall[p].token
        /\ \E g \in owners : g.key = lockCall[p].key /\ g.token # lockCall[p].token

\* C5: acquireLock(K, ttl, T) returns true exactly when the store executes its
\* SET while no live entry exists for K (also when the live entry holds the
\* same token T: the lock is not re-entrant); a true acquire creates the entry
\* with value T and expiry now + ttl, a false one changes nothing, so of the
\* acquires in flight for a free key the first the store executes gets true
\* and the others false.
C5_AcquireIffAbsent ==
    [][\A p \in Procs : Returns(p, "acquire") =>
          LET c == lockCall[p]
          IN /\ lockCall'[p].ret = (storeUp /\ ~locks[c.key].present)
             /\ lockCall'[p].ret =>
                   locks' = [locks EXCEPT ![c.key] =
                               [present |-> TRUE, val |-> c.token,
                                exp |-> clock + c.ttl * MsPerSecond]]
             /\ ~lockCall'[p].ret => locks' = locks]_vars

\* the holder's token was presented again before expiry and was refused
C5_Witness ==
    \E p, q \in Procs :
        /\ p # q
        /\ lockCall[p].op = "acquire" /\ lockCall[p].ret
        /\ lockCall[q].op = "acquire" /\ ~lockCall[q].ret /\ ~lockCall[q].err
        /\ lockCall[q].key = lockCall[p].key
        /\ lockCall[q].token = lockCall[p].token
        /\ Holds(lockCall[p].key, lockCall[p].token)

\* C6: a lock entry goes away only by a releaseLock that presented its value
\* and returned true, or by its expiry time being reached; and while a key has
\* no live owner (none yet, or the last one released or expired) an acquireLock
\* the store executes succeeds for any token.
C6_DestroyedOnlyByReleaseOrExpiry ==
    [][/\ \A k \in LockKeys :
             (locks[k].present /\ locks'[k] # locks[k]) =>
                 /\ ~locks'[k].present
                 /\ \/ \E p \in Procs :
                          /\ Returns(p, "release")
                          /\ lockCall[p].key = k
                          /\ lockCall[p].token = locks[k].val
                          /\ lockCall'[p].ret
                    \/ clock' > clock /\ locks[k].exp <= clock'
       /\ \A p \in Procs :
             (/\ Returns(p, "acquire")
              /\ storeUp
              /\ ~\E g \in owners : g.key = lockCall[p].key)
                 => lockCall'[p].ret /\ Holds(lockCall[p].key, lockCall[p].token)']_vars

\* T1 acquired and released, then T2 acquired the same key
C6_Witness ==
    \E p, q \in Procs :
        /\ lockCall[p].op = "release" /\ lockCall[p].ret
        /\ lockCall[q].op = "acquire" /\ lockCall[q].ret
        /\ lockCall[q].key = lockCall[p].key
        /\ lockCall[q].token # lockCall[p].token
        /\ Holds(lockCall[q].key, lockCall[q].token)

\* C7: lock operations fail closed: an acquireLock or releaseLock whose store
\* operation raises returns false and changes no entry, for every call made
\* while the store is down.
C7_LockFailClosed ==
    [][\A p \in Procs :
          ((Returns(p, "acquire") \/ Returns(p, "release")) /\ ~storeUp) =>
              /\ ~lockCall'[p].ret
              /\ lockCall'[p].err
              /\ locks' = locks]_vars

\* during one outage an acquire of a free key and a release by the holder
\* both returned false
C7_Witness ==
    \E p, q \in Procs :
        /\ ~storeUp
        /\ lockCall[p].op = "acquire" /\ lockCall[p].err /\ ~lockCall[p].ret
        /\ lockCall[q].op = "release" /\ lockCall[q].err /\ ~lockCall[q].ret
        /\ lockCall[q].own

(***************************************************************************)
(* Rate limiter: properties (checked under SpecRate)                       *)
(***************************************************************************)
\* the stored string is the JSON text rateLimitCheck writes: both fields numbers
WellFormed(entry) ==
    /\ entry.present
    /\ entry.val.kind = "json"
    /\ entry.val.tokens.t = "num"
    /\ entry.val.lastRefill.t = "num"

\* a stored string that is not JSON, or JSON without numeric tokens/lastRefill
Malformed(entry) == entry.present /\ ~WellFormed(entry)

\* the step that ends the read phase / the write phase of p's call
ReadDone(p) == rlCall[p].pc = "get" /\ rlCall'[p].pc # "get"
WriteDone(p) == rlCall[p].pc = "set" /\ rlCall'[p].pc = "idle"

\* C1: in every interleaving of rateLimitCheck calls with fixed maxTokens and
\* refillRate and tokensRequested >= 1, every bucket value rateLimitCheck
\* hands to the store, and every such value in the store, has
\* 0 <= tokens <= maxTokens.
C1_TokensWithinBucket ==
    /\ \A i \in Identifiers :
           WellFormed(buckets[i]) =>
               (0 <= buckets[i].val.tokens.v /\ buckets[i].val.tokens.v <= maxTokens)
    /\ \A p \in Procs :
           rlCall[p].pc = "set" =>
               (0 <= rlCall[p].tokens /\ rlCall[p].tokens <= maxTokens)

\* a bucket persisted by a check made after time had passed, while the other
\* process is about to write its own value
C1_Witness ==
    \E i \in Identifiers, p \in Procs :
        /\ WellFormed(buckets[i])
        /\ buckets[i].val.lastRefill.v > 0
        /\ rlCall[p].pc = "set" /\ rlCall[p].id = i

\* C8: the rate limiter fails open: rateLimitCheck returns true whenever the
\* store raises on the bucket read or on the bucket write, or the stored
\* bucket is malformed (not parseable, or parseable without numeric
\* tokens/lastRefill).
C8_FailOpen ==
    [][\A p \in Procs :
          /\ (ReadDone(p) /\ (~storeUp \/ Malformed(buckets[rlCall[p].id])))
                 => (rlCall'[p].pc = "idle" /\ rlCall'[p].ret)
          /\ (WriteDone(p) /\ ~storeUp) => rlCall'[p].ret]_vars

\* C9: with the store healthy and the bucket absent or well formed, the check
\* computes avail = min(maxTokens, tokens + floor(elapsedSeconds * refillRate))
\* from the bucket it read (absent: avail = maxTokens), is allowed iff
\* avail >= tokensRequested, and on allowed its write stores
\* {tokens: avail - tokensRequested, lastRefill: now} expiring
\* ceil(maxTokens / refillRate) * 2 seconds after the write.
C9_TokenBucket ==
    [][\A p \in Procs :
          LET c == rlCall[p]
              b == buckets[c.id]
              added == ((c.now - b.val.lastRefill.v) * refillRate) \div MsPerSecond
              avail == IF ~b.present THEN maxTokens
                       ELSE IF b.val.tokens.v + added < maxTokens
                            THEN b.val.tokens.v + added
                            ELSE maxTokens
              ttl == (IF maxTokens % refillRate = 0
                      THEN maxTokens \div refillRate
                      ELSE maxTokens \div refillRate + 1) * 2
          IN /\ (ReadDone(p) /\ storeUp /\ (~b.present \/ WellFormed(b))) =>
                   /\ buckets' = buckets
                   /\ IF avail >= c.req
                      THEN rlCall'[p] = [c EXCEPT !.pc = "set", !.tokens = avail - c.req]
                      ELSE rlCall'[p].pc = "idle" /\ ~rlCall'[p].ret
             /\ (WriteDone(p) /\ storeUp) =>
                   /\ rlCall'[p].ret
                   /\ buckets'[c.id] =
                         [present |-> TRUE,
                          val |-> JsonObject(JNum(c.tokens), JNum(c.now)),
                          exp |-> clock + ttl * MsPerSecond]]_vars

\* after time has passed one check was allowed and took the last token, and
\* another one was denied
C9_Witness ==
    \E i \in Identifiers, p, q \in Procs :
        /\ rlCall[p].op = "check" /\ rlCall[p].cause = "allowed"
        /\ rlCall[q].op = "check" /\ rlCall[q].cause = "denied"
        /\ WellFormed(buckets[i])
        /\ buckets[i].val.tokens.v = 0
        /\ buckets[i].val.lastRefill.v > 0

\* C10: a denied rateLimitCheck issues no write: no step of the call changes
\* the stored bucket, its tokens, lastRefill and expiry are what they were.
C10_DeniedLeavesBucket ==
    [][\A p \in Procs :
          /\ (rlCall[p].pc = "idle" /\ rlCall'[p].pc = "get") => buckets' = buckets
          /\ (rlCall[p].pc # "idle" /\ rlCall'[p].pc = "idle" /\ ~rlCall'[p].ret)
                 => (rlCall[p].pc = "get" /\ buckets' = buckets)]_vars

\* a check was denied on a drained bucket some time after its last refill
C10_Witness ==
    \E i \in Identifiers, p \in Procs :
        /\ rlCall[p].op = "check" /\ rlCall[p].cause = "denied"
        /\ WellFormed(buckets[i])
        /\ buckets[i].val.tokens.v = 0
        /\ clock > buckets[i].val.lastRefill.v

\* C11: a healthy check that reads a drained bucket (fewer tokens than it
\* requests, at most maxTokens requested) is denied as long as fewer whole
\* tokens than the missing ones have accrued between lastRefill and its now,
\* and is allowed from then on; with maxTokens = 10 and refillRate = 1 a
\* single-token check on the emptied bucket is denied at the instant of the
\* last grant and allowed one second or more after it.
C11_DeniedUntilAccrued ==
    [][\A p \in Procs :
          LET c == rlCall[p]
              b == buckets[c.id]
              missing == c.req - b.val.tokens.v
              elapsed == c.now - b.val.lastRefill.v
              denied == rlCall'[p].pc = "idle" /\ ~rlCall'[p].ret
              allowed == rlCall'[p].pc = "set"
          IN (ReadDone(p) /\ storeUp /\ WellFormed(b)
                /\ b.val.tokens.v < c.req /\ c.req <= maxTokens) =>
                /\ (elapsed * refillRate < missing * MsPerSecond) => denied
                /\ (elapsed * refillRate >= missing * MsPerSecond) => allowed
                /\ (maxTokens = 10 /\ refillRate = 1 /\ b.val.tokens.v = 0
                      /\ c.req = 1) =>
                      /\ elapsed = 0 => denied
                      /\ elapsed >= MsPerSecond => allowed]_vars

\* the bucket of 10 has been emptied; one single-token check was denied and
\* another, made a second or more after the last grant, was let through to
\* its write with the one token that accrued
C11_Witness ==
    \E i \in Identifiers, p, q \in Procs :
        /\ maxTokens = 10 /\ refillRate = 1
        /\ WellFormed(buckets[i]) /\ buckets[i].val.tokens.v = 0
        /\ rlCall[p].op = "check" /\ rlCall[p].cause = "denied"
        /\ rlCall[q].pc = "set" /\ rlCall[q].id = i /\ rlCall[q].req = 1
        /\ rlCall[q].tokens = 0
        /\ rlCall[q].now >= buckets[i].val.lastRefill.v + MsPerSecond

\* C12: the bucket read and the bucket write of rateLimitCheck are separate
\* store operations: the read reserves nothing, other checks' reads and
\* writes can come between it and the write, and a check that passed its
\* read returns true and writes the tokens it computed at its read whatever
\* the bucket holds by then; so two concurrent checks of one identifier can
\* read the same bucket, both return true, and be granted more tokens than
\* the bucket held (the state C12_Witness).
C12_ReadThenBlindWrite ==
    [][\A p \in Procs :
          LET c == rlCall[p]
          IN /\ (ReadDone(p) /\ rlCall'[p].pc = "set") =>
                   /\ buckets' = buckets
                   /\ \A q \in Procs \ {p} : rlCall'[q] = rlCall[q]
             /\ WriteDone(p) =>
                   /\ rlCall'[p].ret
                   /\ storeUp =>
                         buckets'[c.id].val = JsonObject(JNum(c.tokens), JNum(c.now))]_vars

\* no time has passed since the bucket was written with one token left, so
\* every read so far found either no key or a bucket of this very value; two
\* single-token checks of the identifier both found that one token and are
\* both between their read and their write, each about to return true
C12_Witness ==
    \E i \in Identifiers, p, q \in Procs :
        /\ p # q
        /\ clock = 0 /\ storeUp
        /\ WellFormed(buckets[i]) /\ buckets[i].val.tokens.v = 1
        /\ rlCall[p].pc = "set" /\ rlCall[q].pc = "set"
        /\ rlCall[p].id = i /\ rlCall[q].id = i
        /\ rlCall[p].req = 1 /\ rlCall[q].req = 1
        /\ rlCall[p].tokens = 0 /\ rlCall[q].tokens = 0

(***************************************************************************)
(* Producer: properties (checked under SpecProducer)                       *)
(***************************************************************************)
\* the step in which caller c's publish returns to the caller or raises
PublishEnds(c) ==
    /\ pub'[c].pc = "idle"
    /\ \/ pub[c].pc = "send"
       \/ pub[c].pc = "idle" /\ pub'[c] # pub[c]

\* C13: every publish call ends in a delivery receipt or in a raised
\* KafkaError, never in anything else: a receipt exactly when the cluster
\* appended the record in that step, a KafkaError otherwise; a publish made
\* while the producer is not connected raises KafkaError in the calling step
\* without a send attempt and without a record reaching the cluster.
C13_ReceiptOrKafkaError ==
    [][\A c \in Callers :
          /\ PublishEnds(c) =>
                /\ pub'[c].outcome \in {"receipt", "KafkaError"}
                /\ pub'[c].outcome = "receipt" <=>
                      log'[pub'[c].topic] = Append(log[pub'[c].topic], pub'[c].record)
                /\ pub'[c].outcome = "KafkaError" <=> log' = log
                /\ pub'[c].outcome = "KafkaError" => pub'[c].errorLogs >= 1
          /\ (pub[c].pc = "idle" /\ pub'[c] # pub[c] /\ ~prodConnected) =>
                /\ pub'[c].pc = "idle"
                /\ pub'[c].outcome = "KafkaError"
                /\ pub'[c].attempts = 0
                /\ log' = log
          /\ pub'[c].pc = "idle" => (pub'[c] = IdlePub \/ pub'[c].outcome # "none")]_vars

\* an earlier publish was delivered, and the last one, made while the
\* producer was not connected, raised KafkaError without a send attempt
C13_Witness ==
    /\ pub["app"].pc = "idle"
    /\ pub["app"].outcome = "KafkaError"
    /\ pub["app"].attempts = 0
    /\ ~prodConnected
    /\ Len(log["raw-content"]) = 1

\* C14: publish retries are bounded and each failed attempt is logged: a
\* publish never makes more than 1 + ProducerRetries send attempts, raises
\* only after the last of them failed, and one that got its receipt on
\* attempt n has emitted exactly n - 1 failure log events (2 on the 3rd).
C14_RetriesBoundedAndLogged ==
    \A c \in Callers :
        /\ pub[c].attempts <= ProducerRetries + 1
        /\ (pub[c].pc = "idle" /\ pub[c].outcome = "KafkaError" /\ pub[c].attempts > 0)
              => pub[c].attempts = ProducerRetries + 1
        /\ (pub[c].pc = "idle" /\ pub[c].outcome = "receipt")
              => pub[c].errorLogs = pub[c].attempts - 1

(***************************************************************************)
(* Consumer: properties (checked under SpecConsumer and SpecSubscribe)     *)
(***************************************************************************)
\* the step in which the consumer calls sendToDeadLetter
DeadLetterCall ==
    /\ pub'["consumer"] # pub["consumer"]
    /\ pub["consumer"].pc = "idle"
    /\ pub'["consumer"].api = "sendToDeadLetter"

\* the step in which the handler of the record in flight settles
HandlerSettles == cb.pc = "handler" /\ cb'.pc # "handler"

\* the step in which eachMessage settles: at once without a handler, or
\* after the handler, or after handleFailedMessage
CallbackEnds ==
    /\ cb'.pc = "idle"
    /\ cb.pc # "idle" \/ cb' # cb \/ position' # position

\* C15: for each record delivered to eachMessage the consumer calls
\* sendToDeadLetter exactly once if the handler raised and not at all if it
\* resolved or if no handler is registered; the record handed to the
\* dead-letter topic carries the original topic, partition, offset, key,
\* payload and headers and the raised error's name and message.
C15_OneDeadLetterAttempt ==
    [][/\ DeadLetterCall <=> (HandlerSettles /\ cb'.pc = "deadLetter")
       /\ HandlerSettles => (cb'.pc = "deadLetter" \/ CallbackEnds)
       /\ (HandlerSettles /\ CallbackEnds) => cb'.path = "handled"
       /\ cb.pc = "deadLetter" => cb'.pc \in {"deadLetter", "idle"}
       /\ DeadLetterCall =>
             LET m == log[cb.topic][cb.offset + 1]
                 q == pub'["consumer"]
                 o == q.record.value.originalMessage
             IN /\ q.topic = DeadLetterTopic
                /\ o.topic = cb.topic /\ o.partition = 0 /\ o.offset = cb.offset
                /\ o.key = m.key /\ o.value = m.value.body /\ o.headers = m.headers
                /\ q.record.value.error \in Errors
                /\ q.record.value.error = cb'.error]_vars

\* the handler of the second record of the topic with null keys raised a
\* ValidationError and the dead-letter publish for it is pending
C15_Witness ==
    /\ cb.pc = "deadLetter"
    /\ cb.topic = "moderation-results" /\ cb.offset = 1
    /\ cb.error.name = "ValidationError"
    /\ pub["consumer"].pc = "send"
    /\ pub["consumer"].record.value.originalMessage.offset = 1

\* C16: whatever the handler does (resolve, raise), eachMessage returns
\* normally, never propagating an exception to the runner, and the runner
\* moves on to the next record of that partition.
C16_CallbackNeverRaises ==
    [][CallbackEnds =>
          /\ cb'.ret = "normal"
          /\ \E t \in InTopics :
                /\ cb.pc # "idle" => t = cb.topic
                /\ position' = [position EXCEPT ![t] = @ + 1]
                /\ position'[t] <= Len(log[t])]_vars

\* the handler of the first record of a topic raised (its dead-letter record
\* is in the dead-letter topic) and the second record of that topic is now
\* with its handler
C16_Witness ==
    /\ cb.pc = "handler" /\ cb.offset = 1
    /\ \E i \in 1..Len(log[DeadLetterTopic]) :
          LET o == log[DeadLetterTopic][i].value.originalMessage
          IN o.topic = cb.topic /\ o.offset = 0

\* C17: when the dead-letter publish fails (the producer is not connected,
\* or the cluster rejects the send until the retries are used up) the
\* failure goes no further than the log: eachMessage returns normally, no
\* record for the message reaches the dead-letter topic, the message is not
\* delivered again and the runner moves on to the next record.
C17_DeadLetterFailureSwallowed ==
    [][(cb.pc = "deadLetter" /\ pub["consumer"].pc = "idle"
          /\ pub["consumer"].outcome = "KafkaError" /\ cb'.pc # "deadLetter") =>
          /\ pub["consumer"].errorLogs >= 1
          /\ pub["consumer"].attempts \in {0, ProducerRetries + 1}
          /\ cb'.pc = "idle" /\ cb'.ret = "normal"
          /\ cb'.path = "deadLetterFailed"
          /\ log' = log
          /\ \A i \in 1..Len(log[DeadLetterTopic]) :
                LET o == log[DeadLetterTopic][i].value.originalMessage
                IN ~(o.topic = cb.topic /\ o.offset = cb.offset)
          /\ position' = [position EXCEPT ![cb.topic] = cb.offset + 1]]_vars

\* with the cluster unreachable the dead-letter publish for the first record
\* of a topic failed after its retries; the callback returned, nothing is in
\* the dead-letter topic, and the second record is the next to be delivered
C17_Witness ==
    /\ cb.pc = "idle" /\ cb.path = "deadLetterFailed" /\ cb.ret = "normal"
    /\ ~brokerUp /\ prodConnected
    /\ log[DeadLetterTopic] = <<>>
    /\ \E t \in InTopics :
          /\ position[t] = 1 /\ Len(log[t]) = 2
          /\ \A u \in InTopics \ {t} : position[u] = 0

\* C18: the offset of a topic advances by one for every record delivered to
\* eachMessage, whether its handler resolved or raised, and never goes back;
\* a record is handed to a handler only when it is the next one, so no
\* record is handed to its handler twice.
C18_OffsetsAdvance ==
    [][/\ \A t \in InTopics : position'[t] >= position[t]
       /\ (cb.pc = "idle" /\ cb'.pc = "handler") =>
             /\ cb'.offset = position[cb'.topic]
             /\ position' = position
       /\ cb.pc # "idle" => cb.offset = position[cb.topic]
       /\ (cb.pc # "idle" /\ cb'.pc = "idle") =>
             position' = [position EXCEPT ![cb.topic] = cb.offset + 1]
       /\ (cb.pc # "idle" /\ cb'.pc # "idle") =>
             /\ position' = position
             /\ cb'.topic = cb.topic /\ cb'.offset = cb.offset
             /\ cb'.pc # "handler" \/ cb' = cb]_vars

\* the handlers of both records of a topic raised; each record was handed
\* over once, its dead-letter record published, and the offset stands behind
\* the second record
C18_Witness ==
    /\ cb.pc = "idle" /\ cb.path = "deadLettered"
    /\ Len(log[DeadLetterTopic]) = 2
    /\ \E t \in InTopics :
          /\ position[t] = 2 /\ Len(log[t]) = 2
          /\ \A i \in 1..2 :
                LET o == log[DeadLetterTopic][i].value.originalMessage
                IN o.topic = t /\ o.offset = i - 1

\* C19: a record delivered on a topic without a registered handler is
\* skipped: no handler is invoked, nothing is published, eachMessage returns
\* normally in the same step and the runner moves on to the next record; a
\* record on a topic with a handler goes to that handler.
C19_NoHandlerSkipped ==
    [][(cb.pc = "idle" /\ (cb' # cb \/ position' # position)) =>
          \/ \E t \in InTopics :
                /\ messageHandlers[t] = NoHandler
                /\ position[t] < Len(log[t])
                /\ cb' = [IdleCb EXCEPT !.ret = "normal", !.path = "skipped"]
                /\ position' = [position EXCEPT ![t] = @ + 1]
                /\ pub' = pub /\ log' = log
          \/ /\ cb'.pc = "handler"
             /\ messageHandlers[cb'.topic] # NoHandler
             /\ cb'.handler = messageHandlers[cb'.topic]
             /\ position' = position]_vars

\* both records of a topic without a handler have been skipped, one after
\* the other, while the other topic has its handler and an untouched record
C19_Witness ==
    /\ cb.pc = "idle" /\ cb.path = "skipped" /\ cb.ret = "normal"
    /\ \E t \in InTopics :
          /\ messageHandlers[t] = NoHandler
          /\ position[t] = 2
          /\ \A u \in InTopics \ {t} :
                messageHandlers[u] # NoHandler /\ position[u] = 0 /\ Len(log[u]) = 1

\* C20: a topic has at most one handler at any time, the one passed to the
\* last subscribe(topic, handler) that succeeded: a successful subscribe
\* replaces the topic's handler and leaves the other topics' handlers alone,
\* a failed one and every other operation change no handler, and a record
\* is handed to the handler registered for its topic at the time of delivery.
C20_LastSubscribeWins ==
    [][/\ \A t \in InTopics : messageHandlers[t] \in Handlers \cup {NoHandler}
       /\ IF sub.pc = "subscribe" /\ sub'.pc = "idle" /\ sub'.outcome = "ok"
          THEN messageHandlers' = [messageHandlers EXCEPT ![sub.topic] = sub.handler]
          ELSE messageHandlers' = messageHandlers
       /\ (sub.pc = "idle" /\ sub' # sub /\ ~consConnected) =>
             (sub'.pc = "idle" /\ sub'.outcome = "KafkaError")
       /\ (cb.pc = "idle" /\ cb'.pc = "handler") =>
             cb'.handler = messageHandlers[cb'.topic]]_vars

\* subscribe(t, h1) and then subscribe(t, h2) succeeded while h1 was still
\* working on the first record of t: the map holds h2 for t, the other
\* topic keeps its handler h1, and the second record of t is waiting
C20_Witness ==
    \E t \in InTopics :
        /\ cb.pc = "handler" /\ cb.topic = t /\ cb.handler = "h1" /\ cb.offset = 0
        /\ messageHandlers[t] = "h2"
        /\ Len(log[t]) = 2
        /\ \A u \in InTopics \ {t} : messageHandlers[u] = "h1"

(***************************************************************************)
(* Consumer life cycle: properties (checked under SpecLifecycle)           *)
(***************************************************************************)
\* C21: from any consumer state a fatal connection loss leads to
\* Disconnected, and the consumer stays Disconnected until connect() is called
\* from outside; it never reconnects or restarts consumption by itself: a
\* consumer that is consuming is one whose isConnected was set by connect().
C21_NoSelfRestart == running => consConnected

\* C22: the consumer follows Disconnected -> Connecting -> Connected ->
\* Subscribed -> Consuming -> (Rebalancing -> Consuming | Stopping ->
\* Disconnected): consumption that startConsuming began ends only by leaving
\* the consumer in the Disconnected state, stopConsuming included, and while
\* it is stopped no handler is invoked.
C22_StopDisconnects ==
    [][/\ (running /\ ~running') => ~consConnected'
       /\ (cb.pc = "idle" /\ cb'.pc = "handler") => running]_vars

(***************************************************************************)
(* Distributed lock: lease (checked under SpecLock)                        *)
(***************************************************************************)
\* C23: there is no lease renewal: no operation changes the value or the
\* expiry of a live entry, so a holder whose critical section outlives
\* ttlSeconds loses the entry, another party's acquireLock succeeds, and when
\* the original holder then calls releaseLock while the entry holds the other
\* party's token, it gets false and the entry stays.
C23_NoLeaseRenewal ==
    [][/\ \A k \in LockKeys :
             (locks[k].present /\ locks'[k].present) => locks'[k] = locks[k]
       /\ \A p \in Procs :
             (/\ Returns(p, "release")
              /\ \E q \in Procs \ {p} :
                    /\ lockCall[q].op = "acquire" /\ lockCall[q].ret
                    /\ lockCall[q].key = lockCall[p].key
                    /\ lockCall[q].token # lockCall[p].token
                    /\ Holds(lockCall[q].key, lockCall[q].token))
                 => (~lockCall'[p].ret /\ locks' = locks)]_vars

\* two parties were both granted the same key under different tokens and
\* neither has released: the first grant expired while its holder was still
\* in its critical section, the entry now holds the second token
C23_Witness ==
    \E p, q \in Procs :
        /\ p # q
        /\ lockCall[p].pc = "idle" /\ lockCall[p].op = "acquire" /\ lockCall[p].ret
        /\ lockCall[q].pc = "idle" /\ lockCall[q].op = "acquire" /\ lockCall[q].ret
        /\ lockCall[p].key = lockCall[q].key
        /\ lockCall[p].token # lockCall[q].token
        /\ Holds(lockCall[q].key, lockCall[q].token)
        /\ ~\E g \in owners : g.key = lockCall[p].key /\ g.token = lockCall[p].token

(***************************************************************************)
(* Fail-safe store operations (checked under SpecCache)                    *)
(***************************************************************************)
\* C24: rateLimitCheck, acquireLock and releaseLock always complete with a
\* boolean and never raise to the caller, whatever store operation fails
\* (read, write, script evaluation) and whatever the stored value is: every
\* step that ends a call is a return of that call with a boolean result.
C24_AlwaysBoolean ==
    [][/\ \A p \in Procs :
             (lockCall[p].pc # "idle" /\ lockCall'[p].pc = "idle") =>
                 /\ lockCall'[p].op = lockCall[p].pc
                 /\ lockCall'[p].ret \in BOOLEAN
       /\ \A p \in Procs :
             (rlCall[p].pc # "idle" /\ rlCall'[p].pc = "idle") =>
                 /\ rlCall'[p].op = "check"
                 /\ rlCall'[p].ret \in BOOLEAN]_vars

\* during an outage a lock call returned from its catch block, and a check
\* that had read an unparseable bucket before returned from its own
C24_Witness ==
    \E p \in Procs, i \in Identifiers :
        /\ lockCall[p].own
        /\ lockCall[p].op = "release" /\ lockCall[p].err
        /\ rlCall["p2"].op = "check" /\ rlCall["p2"].cause = "parse_error"
        /\ Malformed(buckets[i])
        /\ ~storeUp

(***************************************************************************)
(* Dead-letter records (checked under SpecConsumer)                        *)
(***************************************************************************)
\* C27: every dead-letter record is published to the fixed dead-letter topic
\* with headers that carry originalTopic, the topic the failed message was
\* consumed from, and failureReason, the name of the raised error.
C27_DeadLetterHeaders ==
    /\ \A t \in InTopics : \A n \in 1..Len(log[t]) :
           log[t][n].value.originalMessage = NoOriginal
    /\ \A n \in 1..Len(log[DeadLetterTopic]) :
           LET r == log[DeadLetterTopic][n]
           IN /\ r.value.originalMessage # NoOriginal
              /\ r.headers.failureReason = r.value.error.name
              /\ r.headers.originalTopic = r.value.originalMessage.topic

(***************************************************************************)
(* Bucket expiry (checked under SpecTtl)                                   *)
(***************************************************************************)
\* the time between a bucket write and the expiry it sets, in ms
WrittenTtl(p) == buckets'[rlCall[p].id].exp - clock

\* C30 as stated: every bucket write uses an expiry of
\* ceil(maxTokens / refillRate) * 2 seconds, and that is exactly the
\* 2 * (maxTokens / refillRate) seconds of the data model.
C30_TtlEqualsDataModel ==
    [][\A p \in Procs :
          (WriteDone(p) /\ storeUp) =>
              WrittenTtl(p) * refillRate = 2 * maxTokens * MsPerSecond]_vars

\* C30 amended: every bucket write uses an expiry of
\* ceil(maxTokens / refillRate) * 2 seconds; this is never less than the
\* 2 * (maxTokens / refillRate) seconds of the data model, exceeds it by less
\* than 2 seconds, and equals it exactly when refillRate divides maxTokens.
C30_TtlIsCeilTwice ==
    [][\A p \in Procs :
          (WriteDone(p) /\ storeUp) =>
              LET n == CHOOSE k \in 0..maxTokens :
                           k * refillRate >= maxTokens
                           /\ (k - 1) * refillRate < maxTokens
                  ideal == 2 * maxTokens * MsPerSecond
              IN /\ WrittenTtl(p) = n * 2 * MsPerSecond
                 /\ WrittenTtl(p) * refillRate >= ideal
                 /\ WrittenTtl(p) * refillRate < ideal + 2 * refillRate * MsPerSecond
                 /\ (WrittenTtl(p) * refillRate = ideal)
                        <=> (maxTokens % refillRate = 0)]_vars

\* a check was allowed and wrote the bucket with a refillRate that does not
\* divide maxTokens: the entry outlives 2 * (maxTokens / refillRate) seconds
\* counted from the write
C30_Witness ==
    \E i \in Identifiers :
        /\ rlCall["p1"].op = "check" /\ rlCall["p1"].cause = "allowed"
        /\ WellFormed(buckets[i])
        /\ maxTokens % refillRate # 0
        /\ buckets[i].val.lastRefill.v = clock
        /\ (buckets[i].exp - clock) * refillRate > 2 * maxTokens * MsPerSecond

(***************************************************************************)
(* connect(): properties (checked under SpecConnect)                       *)
(***************************************************************************)
\* the step in which the connect() of component c ends
ConnectEnds(c) == connCall[c].pc = "connect" /\ connCall'[c].pc = "idle"

\* C28: a connect() of the store client, the producer or the consumer that
\* fails raises a typed error to the caller (DatabaseError for the store,
\* KafkaError for the producer and the consumer) and leaves the component in
\* the not-connected state; a component reports connected only after a
\* connect() that succeeded.
C28_ConnectTypedError ==
    [][\A c \in {"store", "producer", "consumer"} :
          /\ (ConnectEnds(c) /\ FALSE \in Reachable(c)) =>
                /\ connCall'[c].outcome =
                      IF c = "store" THEN "DatabaseError" ELSE "KafkaError"
                /\ ~Connected(c)'
          /\ (ConnectEnds(c) /\ connCall'[c].outcome = "ok") => Connected(c)'
          /\ (~Connected(c) /\ Connected(c)') =>
                (ConnectEnds(c) /\ connCall'[c].outcome = "ok")]_vars

\* with the store down and the cluster down, the connects of the store
\* client and of the consumer have failed with their errors and left both
\* not connected, while the producer, connected earlier, still reports
\* connected
C28_Witness ==
    /\ ~storeUp /\ ~brokerUp
    /\ connCall["store"].outcome = "DatabaseError" /\ ~cacheConnected
    /\ connCall["consumer"].outcome = "KafkaError" /\ ~consConnected
    /\ connCall["producer"].outcome = "ok" /\ prodConnected

(***************************************************************************)
(* Start-up of the hosting process (checked under SpecBoot)                *)
(***************************************************************************)
\* a connect of initializeServices raised, or the model initialisation did
BootFailed ==
    \/ /\ server = "services"
       /\ \E c \in BootComponents :
             connCall[c].pc = "idle" /\ connCall[c].outcome # "ok"
    \/ server = "MLError"

\* C29: the hosting process does not proceed without its connections: the
\* HTTP server starts listening only after the database, store and producer
\* connects and the model initialisation have all succeeded; if any of them
\* fails the server never starts listening and the process terminates.
C29_NoListenWithoutConnections ==
    /\ [][(server # "listening" /\ server' = "listening") =>
             /\ server = "modelsReady"
             /\ \A c \in BootComponents :
                   connCall[c].pc = "idle" /\ connCall[c].outcome = "ok"]_vars
    /\ [][BootFailed => server' \in {server, "exited"}]_vars
    /\ [][server = "exited" => server' = "exited"]_vars
    /\ (BootFailed ~> server = "exited")

\* the database and the producer connected, the store connect raised
\* DatabaseError, and the process has terminated without listening
C29_Witness ==
    /\ server = "exited"
    /\ connCall["store"].outcome = "DatabaseError"
    /\ connCall["database"].outcome = "ok" /\ dbConnected
    /\ connCall["producer"].outcome = "ok" /\ prodConnected

(***************************************************************************)
(* Ordering from producer to consumer (checked under SpecPipeline)         *)
(***************************************************************************)
\* C25: within a single broker partition, messages reach the consumer's
\* handlers in the order in which the producer's publishes for that partition
\* were accepted, including when publishes are retried: the accepted records
\* of a topic only grow at the end, a retried publish is accepted once, at
\* the attempt that succeeds, every handler invocation is for the record
\* right after the last one handled, and the position moves one record at a
\* time. No order is guaranteed across partitions or topics.
C25_PartitionOrder ==
    [][/\ \A t \in Topics :
             \/ log'[t] = log[t]
             \/ /\ Len(log'[t]) = Len(log[t]) + 1
                /\ SubSeq(log'[t], 1, Len(log[t])) = log[t]
                /\ \A c \in Callers :
                      (pub[c].pc = "send" /\ pub'[c].pc = "idle"
                         /\ pub[c].topic = t) =>
                          log'[t][Len(log'[t])] = pub[c].record
       /\ \A c \in Callers :
             (pub[c].pc = "send" /\ pub'[c].pc = "send"
                /\ pub'[c].attempts > pub[c].attempts) => log' = log
       /\ (cb.pc = "idle" /\ cb'.pc = "handler") =>
             /\ cb'.offset = position[cb'.topic]
             /\ cb'.offset < Len(log[cb'.topic])
             /\ position' = position
       /\ \A t \in InTopics :
             \/ position'[t] = position[t]
             \/ /\ position'[t] = position[t] + 1
                /\ position[t] < Len(log[t])
                /\ cb.pc = "handler" => (cb.topic = t /\ cb.offset = position[t])]_vars

\* two publishes of the application were accepted on its topic, the second
\* after failed attempts, and both were handled in that order, while a record
\* accepted on the other topic has not reached its handler
C25_Witness ==
    /\ Len(log["raw-content"]) = 2
    /\ log["raw-content"][1] # log["raw-content"][2]
    /\ pub["app"].outcome = "receipt" /\ pub["app"].attempts > 1
    /\ pub["app"].record = log["raw-content"][2]
    /\ position["raw-content"] = 2
    /\ cb.ret = "normal" /\ cb.path = "handled"
    /\ messageHandlers["moderation-results"] = "h1"
    /\ Len(log["moderation-results"]) > 0
    /\ position["moderation-results"] = 0

(***************************************************************************)
(* The producer's connection (checked under SpecWire)                      *)
(***************************************************************************)
\* C26: at every instant at most one publish request is in flight on the
\* producer's broker connection, even when several callers invoke publish
\* concurrently, and a broker-side retry of one logical send never creates a
\* duplicate record: the broker appends the record of a send at most once,
\* and no two dead-letter records stem from the same consumed record.
C26_OneInFlightNoDuplicate ==
    /\ [](Cardinality(wire.flying) <= 1)
    /\ [](\A m, n \in 1..Len(log[DeadLetterTopic]) :
             m # n => log[DeadLetterTopic][m].value.originalMessage
                          # log[DeadLetterTopic][n].value.originalMessage)
    /\ [][\A c \in Callers :
             (c \in wire.stored /\ c \in wire'.answered \ wire.answered)
                 => log' = log]_vars

\* both callers have a publish pending: the dead-letter send was appended by
\* the broker at an attempt whose response was lost, its retry is in flight,
\* and the application's request waits in the queue behind it
C26_Witness ==
    /\ pub["app"].pc = "send" /\ pub["consumer"].pc = "send"
    /\ pub["consumer"].attempts > 0
    /\ "consumer" \in wire.stored
    /\ wire.flying = {"consumer"}
    /\ wire.answered = {}
    /\ wire.queue = <<"app">>
    /\ Len(log[DeadLetterTopic]) = 1

(***************************************************************************)
(* A handler that does not return (checked under SpecConsumer)             *)
(***************************************************************************)
\* C31: there is no timeout or cancellation of a handler invocation: while a
\* handler has not returned, no other invocation begins for its partition
\* and its offset stays where it is, while a record waiting on another
\* partition can still be delivered to its handler.
C31_StallsOnlyItsPartition ==
    /\ [][cb.pc = "handler" =>
             /\ cb'.pc \in {"handler", "deadLetter", "idle"}
             /\ cb'.pc = "handler" => (cb' = cb /\ position' = position)]_vars
    /\ [](\A u \in InTopics :
             (/\ cb.pc = "handler" /\ cb.topic # u
              /\ running
              /\ messageHandlers[u] # NoHandler
              /\ position[u] < Len(log[u]))
                 => ENABLED eachMessage_call(u))

(***************************************************************************)
(* C32: with one caller's checks made one at a time, a healthy store and   *)
(* a clock that never goes back, the tokens granted in a window that       *)
(* started on a full bucket never exceed maxTokens plus the whole tokens   *)
(* refilled over the length of the window,                                 *)
(* maxTokens + floor(T * refillRate).                                      *)
(***************************************************************************)
C32_WindowBound ==
    window.open =>
        window.granted
            <= maxTokens + ((clock - window.start) * refillRate) \div MsPerSecond

\* a window in which the bound is attained with refilled tokens
C32_Witness ==
    /\ window.open
    /\ window.granted > maxTokens
    /\ window.granted
         = maxTokens + ((clock - window.start) * refillRate) \div MsPerSecond

(***************************************************************************)
(* C33: every allowed check writes lastRefill = the time of that check,    *)
(* also when its refill was 0 tokens, so the time accrued since the        *)
(* previous lastRefill is lost: over a run of allowed checks each made     *)
(* less than 1/refillRate seconds after the one before, the stored tokens  *)
(* are what the first check of the run found minus what the run was        *)
(* granted, however long the run lasts: no token is refilled.              *)
(***************************************************************************)
C33_NoRefillInRun ==
    /\ [][\A p \in Procs :
            (rlCall[p].pc = "set" /\ rlCall'[p].cause = "allowed")
                => /\ buckets'[rlCall[p].id].val.lastRefill = JNum(rlCall[p].now)
                   /\ buckets'[rlCall[p].id].val.tokens = JNum(rlCall[p].tokens)]_vars
    /\ [](\A i \in Identifiers :
            (run.on /\ buckets[i].present)
                => buckets[i].val.tokens = JNum(run.base - run.spent))

\* a run that lasted at least the time of one token and gained none
C33_Witness ==
    /\ run.on
    /\ buckets["u1"].present
    /\ buckets["u1"].val.lastRefill = JNum(clock)
    /\ (clock - run.since) * refillRate >= MsPerSecond
    /\ buckets["u1"].val.tokens = JNum(run.base - run.spent)
    /\ run.base - run.spent < maxTokens

(***************************************************************************)
(* C34: for one maxTokens and refillRate, the limiter whose bucket keys    *)
(* expire and a limiter whose keys never expire answer every check of a    *)
(* sequence of checks made one at a time alike: where the first allows     *)
(* (and goes on to its write) the second allows, and a returned check has  *)
(* the same result in both.                                                *)
(***************************************************************************)
C34_ExpiryUnobservable ==
    \A p \in {"p1"} :
        twin.ret # "none" =>
            /\ rlCall[p].pc = "set" => twin.ret = "allow"
            /\ rlCall[p].pc = "idle" => rlCall[p].ret = (twin.ret = "allow")

(***************************************************************************)
(* C35: an acquireLock that finds the key held returns false, and an       *)
(* acquireLock that returns false leaves every lock entry as it was: the   *)
(* stored ownerToken and the expiry time of the entry are the same after   *)
(* the call as before it (no overwrite, no extension of the lease).        *)
(***************************************************************************)
C35_FailedAcquireNoEffect ==
    [][\A p \in Procs :
          (lockCall[p].pc = "acquire" /\ lockCall'[p].pc = "idle")
              => /\ (storeUp /\ locks[lockCall[p].key].present)
                        => ~lockCall'[p].ret
                 /\ ~lockCall'[p].ret
                        => /\ locks' = locks
                           /\ owners' = owners]_vars

\* an acquire with another token has returned false, without a store error,
\* on a key that is held: the entry has the holder's token and the expiry
\* of the holder's acquire, which is yet to come
C35_Witness ==
    \E p \in Procs, g \in owners :
        /\ lockCall[p].pc = "idle" /\ lockCall[p].op = "acquire"
        /\ ~lockCall[p].ret /\ ~lockCall[p].err
        /\ lockCall[p].token # g.token
        /\ g.key = lockCall[p].key
        /\ locks[g.key].present
        /\ locks[g.key].val = g.token
        /\ locks[g.key].exp = g.exp
        /\ g.exp > clock

(***************************************************************************)
(* C36: the failure handling treats a record of the dead-letter topic like *)
(* any other: when the handler subscribed to the dead-letter topic raises  *)
(* on a record, sendToDeadLetter is called for that record; when the       *)
(* publish succeeds the dead-letter topic holds a later record that wraps  *)
(* it and the consumer has not caught up with the topic; so with a handler *)
(* that always raises, one dead-letter record waiting to be consumed       *)
(* leads to dead-letter records up to any number.                          *)
(***************************************************************************)
C36_DeadLetterLoops ==
    /\ [][(cb.pc = "handler" /\ cb.topic = DeadLetterTopic /\ cb' # cb)
            => /\ cb'.pc = "deadLetter"
               /\ pub'["consumer"].api = "sendToDeadLetter"
               /\ pub'["consumer"].topic = DeadLetterTopic
               /\ pub'["consumer"].record.value.originalMessage.topic
                    = DeadLetterTopic]_vars
    /\ [][(/\ cb.pc = "deadLetter" /\ cb.topic = DeadLetterTopic
           /\ cb'.path = "deadLettered")
            => /\ position'[DeadLetterTopic] = cb.offset + 1
               /\ Len(log[DeadLetterTopic]) > position'[DeadLetterTopic]
               /\ \E n \in (cb.offset + 2)..Len(log[DeadLetterTopic]) :
                     LET o == log[DeadLetterTopic][n].value.originalMessage
                     IN o.topic = DeadLetterTopic /\ o.offset = cb.offset]_vars
    /\ (/\ position[DeadLetterTopic] < Len(log[DeadLetterTopic])
        /\ running /\ prodConnected
        /\ messageHandlers[DeadLetterTopic] # NoHandler)
          ~> (Len(log[DeadLetterTopic]) = MaxDead)

\* a dead-letter record that wraps a dead-letter record that wraps a
\* dead-letter record
C36_Witness ==
    \E n \in 1..Len(log[DeadLetterTopic]) :
        LET o == log[DeadLetterTopic][n].value.originalMessage
        IN /\ o.topic = DeadLetterTopic
           /\ o.offset > 0
           /\ log[DeadLetterTopic][o.offset + 1].value.originalMessage.topic
                = DeadLetterTopic

(***************************************************************************)
(* C37: connect() and disconnect() of the store client, the producer and   *)
(* the consumer are idempotent and disconnect() never raises: a client     *)
(* connect is issued only by a component that is not connected and a       *)
(* client disconnect only by one that is connected; a call that returns at *)
(* once returns normally; every disconnect() returns normally; and a       *)
(* disconnect() whose client call failed leaves isConnected as it was, so  *)
(* the component still reports connected.                                  *)
(***************************************************************************)
C37_IdempotentLifecycle ==
    [][\A c \in {"store", "producer", "consumer"} :
          /\ (connCall[c].pc = "idle" /\ connCall'[c].pc = "connect")
                => ~Connected(c)
          /\ (connCall[c].pc = "idle" /\ connCall'[c].pc = "disconnect")
                => Connected(c)
          /\ (connCall[c].pc = "idle" /\ connCall'[c].pc = "idle"
              /\ connCall'[c] # connCall[c])
                => /\ connCall'[c].outcome = "ok" /\ ~connCall'[c].logged
                   /\ Connected(c)' = Connected(c)
          /\ (connCall[c].pc = "disconnect" /\ connCall'[c].pc = "idle")
                => /\ connCall'[c].outcome = "ok"
                   /\ connCall'[c].logged => Connected(c)' = Connected(c)
                   /\ ~connCall'[c].logged => ~Connected(c)']_vars

\* the client's disconnect has failed on all three: each disconnect() has
\* logged and returned normally, and each component reports connected
C37_Witness ==
    \A c \in {"store", "producer", "consumer"} :
        /\ Connected(c)
        /\ connCall[c].pc = "idle"
        /\ connCall[c].outcome = "ok"
        /\ connCall[c].logged

(***************************************************************************)
(* C38: a subscribe(topic, handler) that fails raises KafkaError and       *)
(* leaves the handler table as it was: it fails at once exactly on a       *)
(* consumer that is not connected, and after the await when the broker     *)
(* subscription raises; only a subscribe that succeeded changes the table. *)
(* startConsuming on a consumer that is not connected raises KafkaError    *)
(* and the loop is not started.                                            *)
(***************************************************************************)
C38_FailedSubscribeNoEffect ==
    [][/\ (sub.pc = "idle" /\ sub'.pc = "idle" /\ sub' # sub)
            => (~consConnected /\ sub'.outcome = "KafkaError")
       /\ (sub.pc = "idle" /\ sub'.pc = "subscribe") => consConnected
       /\ (sub.pc = "subscribe" /\ sub'.pc = "idle" /\ ~brokerUp)
            => sub'.outcome = "KafkaError"
       /\ (sub' # sub /\ sub'.outcome = "KafkaError")
            => messageHandlers' = messageHandlers
       /\ messageHandlers' # messageHandlers
            => (sub.pc = "subscribe" /\ sub'.outcome = "ok")
       /\ (~consConnected /\ (startCall' # startCall \/ running' # running))
            => (startCall' = "KafkaError" /\ ~running')
       /\ (~running /\ running') => (consConnected /\ startCall' = "ok")]_vars

\* on a consumer that is not connected, with a handler registered for each
\* topic, the last subscribe and the last startConsuming have raised
\* KafkaError: the handlers are in effect and the loop is not running
C38_Witness ==
    /\ ~consConnected
    /\ \A t \in InTopics : messageHandlers[t] = "h1"
    /\ sub.pc = "idle" /\ sub.outcome = "KafkaError"
    /\ startCall = "KafkaError"
    /\ ~running

(***************************************************************************)
(* DatabaseManager.transaction: properties (checked under SpecTransaction) *)
(***************************************************************************)
\* the transaction() of caller p has returned or raised after it had
\* obtained a pooled client
TxEnded(p) == tx[p].pc = "idle" /\ tx[p].stmts # <<>>

Issued(p, stmt) == \E n \in 1..Len(tx[p].stmts) : tx[p].stmts[n] = stmt

\* C39: a transaction() that obtained a client issues BEGIN first, runs the
\* callback, and issues COMMIT only after the callback completed without
\* error; a call that returns its result issued BEGIN and COMMIT and nothing
\* else; a call that met an error issued ROLLBACK last, no COMMIT after the
\* error, and raises DatabaseError; and whichever await failed, the client
\* has been released exactly once when the call ends and not before.
C39_TransactionContract ==
    \A p \in Procs :
        /\ tx[p].stmts # <<>> => tx[p].stmts[1] = "BEGIN"
        /\ Issued(p, "COMMIT") => tx[p].ran = "ok"
        /\ tx[p].pc # "idle" => tx[p].released = 0
        /\ TxEnded(p) =>
              /\ tx[p].released = 1
              /\ tx[p].outcome \in {"result", "DatabaseError"}
              /\ tx[p].outcome = "result" => tx[p].stmts = <<"BEGIN", "COMMIT">>
              /\ tx[p].outcome # "result" =>
                    /\ tx[p].stmts[Len(tx[p].stmts)] = "ROLLBACK"
                    /\ tx[p].stmts \in {<<"BEGIN", "ROLLBACK">>,
                                        <<"BEGIN", "COMMIT", "ROLLBACK">>}

====
